---- MODULE Spec2Model ----
(***************************************************************************)
(* The EYG abstract machine of eyg-interpreter (Control / Env / Stack /    *)
(* Break), its stepping loop and the host driver of the test suite.        *)
(*                                                                         *)
(* Go maps are reference values: State.Env and the Env field of a stack    *)
(* frame may name the same map.  Environments therefore live in a heap     *)
(* (a sequence of maps); State.Env and frame Env fields are addresses.     *)
(***************************************************************************)
EXTENDS Integers, Sequences, FiniteSets, TLC

\* An Expression is a record with the field op (key "0" of the source); a
\* Value, a frame and a Break are records whose field k names their dynamic
\* type. Equal records agree on these fields before any other is compared.
IsExpression(c) == "op" \in DOMAIN c

HasKind(c) == "k" \in DOMAIN c

Discriminant(c) == IF IsExpression(c) THEN c.op ELSE c.k

\* ---------------------------------------------------------------- bounds
MaxEffects == 3
MaxVal == 2
MaxStrLen == 2
MaxDepth == 5
MaxFrames == 2

\* ------------------------------------------- expression type constants
VAR == "v"
LAMBDA_ == "f"
APPLY == "a"
LET_ == "l"
VACANT == "z"
BINARY == "x"
INT == "i"
STRING_ == "s"
TAIL == "ta"
CONS == "c"
EMPTY == "u"
EXTEND == "e"
SELECT == "g"
OVERWRITE == "o"
TAG == "t"
CASE_ == "m"
NOCASES == "n"
PERFORM == "p"
HANDLE == "h"
BUILTIN == "b"

\* An Expression is a map; the model writes its discriminant key "0" as
\* the record field op, the other keys (l, b, a, f, t, v) as in the source.
EVar(l) == [op |-> VAR, l |-> l]
ELambda(l, b) == [op |-> LAMBDA_, l |-> l, b |-> b]
EApply(f, a) == [op |-> APPLY, f |-> f, a |-> a]
ELet(l, v, t) == [op |-> LET_, l |-> l, v |-> v, t |-> t]

\* ------------------------------------------------------------- values
\* Every Value is a record whose field k names its dynamic Go type.
NilV == [k |-> "nil"]
IntV(n) == [k |-> "int", v |-> n]
\* A Go string is its sequence of bytes.
StrV(str) == [k |-> "str", v |-> str]
ListV(items) == [k |-> "list", v |-> items]
RecordV(m) == [k |-> "rec", v |-> m]
\* A map[string]interface{} of a decoded source tree, which is not a
\* map[string]Value: the value of a BINARY literal.
JsonMap(m) == [k |-> "imap", v |-> m]
Tagged(tag, v) == [k |-> "tagged", Tag |-> tag, Value |-> v]
Closure(lam, captured) == [k |-> "closure", Lambda |-> lam, Captured |-> captured]
Partial(exp, applied, impl) == [k |-> "partial", Exp |-> exp, Applied |-> applied, Impl |-> impl]
ResumeValue(reversed) == [k |-> "resume", Reversed |-> reversed]
Effect(label, lift) == [k |-> "effect", Label |-> label, Lift |-> lift]

\* Literal expressions carry their value under key v.
EInt(n) == [op |-> INT, v |-> IntV(n)]
EStr(str) == [op |-> STRING_, v |-> StrV(str)]
ETail == [op |-> TAIL]
ECons == [op |-> CONS]
EEmpty == [op |-> EMPTY]
EExtend(l) == [op |-> EXTEND, l |-> l]
EOverwrite(l) == [op |-> OVERWRITE, l |-> l]
ESelect(l) == [op |-> SELECT, l |-> l]
ETag(l) == [op |-> TAG, l |-> l]
ECase(l) == [op |-> CASE_, l |-> l]
ENoCases == [op |-> NOCASES]
EPerform(l) == [op |-> PERFORM, l |-> l]
EHandle(l) == [op |-> HANDLE, l |-> l]
EBuiltin(l) == [op |-> BUILTIN, l |-> l]

\* Break conditions.
NoBreak == [k |-> "none"]
Fatal(msg) == [k |-> "error", msg |-> msg]
UndefinedVariable(l) == [k |-> "UndefinedVariable", l |-> l]
UndefinedBuiltin(l) == [k |-> "UndefinedBuiltin", l |-> l]
NotImplemented == [k |-> "NotImplemented"]
\* A Go run-time panic, which nothing recovers: the run ends there.
Panic(msg) == [k |-> "panic", msg |-> msg]

\* Continuation frames; Env is a heap address.
ArgCont(arg, env) == [k |-> "ArgCont", Arg |-> arg, Env |-> env]
ApplyCont(func, env) == [k |-> "ApplyCont", Func |-> func, Env |-> env]
CallCont(arg, env) == [k |-> "CallCont", Arg |-> arg, Env |-> env]
AssignCont(label, then, env) == [k |-> "AssignCont", Label |-> label, Then |-> then, Env |-> env]
DelimitCont(label, handler) == [k |-> "DelimitCont", Label |-> label, Handle |-> handler]

\* Implementation identifiers held by a Partial (the Go func value).
Impl(f, l) == [f |-> f, l |-> l]

\* ------------------------------------------------------- machine state
\* Calls and Invoked are observation logs of the current Step: the
\* (fn, arg) pairs passed to call and the (impl, args) implementation
\* invocations, in order.
\* The order in which a step's range over a map meets the keys is the
\* runtime's choice; Range holds what the step's ranges meet first, a key
\* whose values differ ("false") or a key whose comparison panics ("panic").
NoRange == "none"

RangeOrders == {"false", "panic"}

NewState(src) ==
    [Control |-> src, Env |-> 1, Heap |-> << <<>> >>, Stack |-> <<>>,
     IsValue |-> FALSE, Break |-> NoBreak, Calls |-> <<>>, Invoked |-> <<>>,
     Range |-> NoRange, Bases |-> <<>>]

SetValue(s, value) == [s EXCEPT !.IsValue = TRUE, !.Control = value]

SetExpression(s, expr) == [s EXCEPT !.IsValue = FALSE, !.Control = expr]

SetBreak(s, b) == [s EXCEPT !.Break = b]

EnvMap(s) == s.Heap[s.Env]

\* s.Env[label] = value : an in-place update of the map s.Env names.
Bind(s, label, value) ==
    [s EXCEPT !.Heap[s.Env] = (label :> value) @@ s.Heap[s.Env]]

GetVariableOrNil(s, label) ==
    SetValue(s, IF label \in DOMAIN EnvMap(s) THEN EnvMap(s)[label] ELSE NilV)

GetVariable(s, label) ==
    IF label \in DOMAIN EnvMap(s)
    THEN SetValue(s, EnvMap(s)[label])
    ELSE SetValue(SetBreak(s, UndefinedVariable(label)), NilV)

Push(s, cont) == [s EXCEPT !.Stack = Append(s.Stack, cont)]

\* The top of the Stack is its last element.
Top(s) == s.Stack[Len(s.Stack)]

\* A Pop that takes the frame from the bottom of the Stack.
PopFront(s) == [s EXCEPT !.Stack = Tail(s.Stack)]

Pop(s) == [s EXCEPT !.Stack = SubSeq(s.Stack, 1, Len(s.Stack) - 1)]

\* copyEnv / copyEnvFrom allocate a fresh map; NewEnv is its address.
NewEnv(s) == Len(s.Heap) + 1

copyEnvFrom(s, m) == [s EXCEPT !.Heap = Append(s.Heap, m)]

copyEnv(s) == copyEnvFrom(s, EnvMap(s))

\* toExpression: a value that is not a map is the record [notmap |-> TRUE].
IsMap(v) == "notmap" \notin DOMAIN v

\* toExpression returns the map, or nil after setting Break.
NilExpr == [nilmap |-> TRUE]

toExpression(v) == IF IsMap(v) THEN v ELSE NilExpr

toExpressionBreak(s, v) ==
    IF IsMap(v) THEN s ELSE SetBreak(s, Fatal("cannot convert to Expression"))

\* ------------------------------------------------------ builtin tables
getBuiltinArgCount(name) ==
    CASE name \in {"fix", "int_absolute", "int_parse", "int_to_string",
                   "string_uppercase", "string_lowercase", "string_length",
                   "list_pop", "string_to_binary", "string_from_binary",
                   "binary_from_integers"} -> 1
      [] name \in {"equal", "fixed", "int_compare", "int_add", "int_subtract",
                   "int_multiply", "int_divide", "string_append",
                   "string_split", "string_split_once", "string_ends_with",
                   "string_starts_with"} -> 2
      [] name \in {"string_replace", "list_fold", "binary_fold"} -> 3
      [] OTHER -> 1

getRequiredArgs(expr) ==
    IF "op" \notin DOMAIN expr THEN 1
    ELSE CASE expr.op \in {CONS, EXTEND, OVERWRITE} -> 2
           [] expr.op \in {SELECT, TAG, PERFORM} -> 1
           [] expr.op = CASE_ -> 3
           [] expr.op = HANDLE -> 2
           [] expr.op = BUILTIN ->
                IF "l" \notin DOMAIN expr THEN 1 ELSE getBuiltinArgCount(expr.l)
           [] OTHER -> 1

\* The names getBuiltin has an implementation for.
builtins ==
    {"equal", "fix", "fixed", "int_compare", "int_add", "int_subtract",
     "int_multiply", "int_divide", "int_absolute", "int_parse",
     "int_to_string", "string_append", "string_split", "string_split_once",
     "string_replace", "string_uppercase", "string_lowercase",
     "string_ends_with", "string_starts_with", "string_length", "list_pop",
     "list_fold", "string_to_binary", "string_from_binary",
     "binary_from_integers", "binary_fold"}

getBuiltin(name) == IF name \in builtins THEN Impl("builtin", name) ELSE NilV

\* ---------------------------------------------------------------- eval
evalVar(s, expr) ==
    IF "l" \notin DOMAIN expr
    THEN SetBreak(s, Fatal("variable missing label"))
    ELSE GetVariable(s, expr.l)

\* A Closure that keeps the machine's own environment map.
evalLambdaSharing(s, expr) == SetValue(s, Closure(expr, s.Env))

\* Captured is the address of the copy.
evalLambda(s, expr) == SetValue(copyEnv(s), Closure(expr, NewEnv(s)))

\* APPLY that evaluates the argument before the function.
evalApplyArgFirst(s, expr) ==
    IF "a" \notin DOMAIN expr THEN SetBreak(s, Fatal("apply missing argument"))
    ELSE IF "f" \notin DOMAIN expr THEN SetBreak(s, Fatal("apply missing function"))
    ELSE LET s1 == toExpressionBreak(toExpressionBreak(s, expr.a), expr.f)
             s2 == Push(copyEnv(s1), ArgCont(toExpression(expr.f), NewEnv(s1)))
         IN  SetExpression(s2, toExpression(expr.a))

evalApply(s, expr) ==
    IF "a" \notin DOMAIN expr THEN SetBreak(s, Fatal("apply missing argument"))
    ELSE IF "f" \notin DOMAIN expr THEN SetBreak(s, Fatal("apply missing function"))
    ELSE LET s1 == toExpressionBreak(toExpressionBreak(s, expr.a), expr.f)
             s2 == Push(copyEnv(s1), ArgCont(toExpression(expr.a), NewEnv(s1)))
         IN  SetExpression(s2, toExpression(expr.f))

evalLet(s, expr) ==
    IF "l" \notin DOMAIN expr THEN SetBreak(s, Fatal("let missing label"))
    ELSE IF "t" \notin DOMAIN expr THEN SetBreak(s, Fatal("let missing then"))
    ELSE IF "v" \notin DOMAIN expr THEN SetBreak(s, Fatal("let missing value"))
    ELSE LET s1 == toExpressionBreak(toExpressionBreak(s, expr.t), expr.v)
             s2 == Push(copyEnv(s1),
                        AssignCont(expr.l, toExpression(expr.t), NewEnv(s1)))
         IN  SetExpression(s2, toExpression(expr.v))

\* A Vacant that evaluates to the empty record.
evalVacantAsUnit(s, expr) == SetValue(s, RecordV(<<>>))

evalVacant(s, expr) == SetBreak(s, NotImplemented)

\* BINARY, INT and STRING: the value stored under key v.
evalLiteral(s, expr) ==
    IF "v" \notin DOMAIN expr
    THEN SetBreak(s, Fatal("literal missing value"))
    ELSE SetValue(s, expr.v)

\* EXTEND, OVERWRITE, SELECT, TAG, CASE, PERFORM, HANDLE: a Partial whose
\* implementation is built from the label.
evalLabelled(s, expr, f) ==
    IF "l" \notin DOMAIN expr
    THEN SetBreak(s, Fatal("missing label"))
    ELSE SetValue(s, Partial(expr, <<>>, Impl(f, expr.l)))

evalBuiltin(s, expr) ==
    IF "l" \notin DOMAIN expr THEN SetBreak(s, Fatal("builtin missing label"))
    ELSE IF getBuiltin(expr.l) = NilV THEN SetBreak(s, UndefinedBuiltin(expr.l))
    ELSE SetValue(s, Partial(expr, <<>>, getBuiltin(expr.l)))

eval(s) ==
    LET expr == s.Control IN
    IF "op" \notin DOMAIN expr
    THEN SetBreak(s, Fatal("expression missing type field"))
    ELSE CASE expr.op = VAR -> evalVar(s, expr)
           [] expr.op = LAMBDA_ -> evalLambda(s, expr)
           [] expr.op = APPLY -> evalApply(s, expr)
           [] expr.op = LET_ -> evalLet(s, expr)
           [] expr.op = VACANT -> evalVacant(s, expr)
           [] expr.op \in {BINARY, INT, STRING_} -> evalLiteral(s, expr)
           [] expr.op = TAIL -> SetValue(s, ListV(<<>>))
           [] expr.op = CONS -> SetValue(s, Partial(expr, <<>>, Impl("cons", "")))
           [] expr.op = EMPTY -> SetValue(s, RecordV(<<>>))
           [] expr.op \in {EXTEND, OVERWRITE} -> evalLabelled(s, expr, "extend")
           [] expr.op = SELECT -> evalLabelled(s, expr, "select")
           [] expr.op = TAG -> evalLabelled(s, expr, "tag")
           [] expr.op = CASE_ -> evalLabelled(s, expr, "case")
           [] expr.op = NOCASES -> SetValue(s, Partial(expr, <<>>, Impl("nocases", "")))
           [] expr.op = PERFORM -> evalLabelled(s, expr, "perform")
           [] expr.op = HANDLE -> evalLabelled(s, expr, "handle")
           [] expr.op = BUILTIN -> evalBuiltin(s, expr)
           [] OTHER -> SetBreak(s, Fatal("unrecognized expression type"))

\* ----------------------------------------------------------- primitives
RECURSIVE call(_, _, _)

cons(s, args) ==
    IF Len(args) # 2 THEN SetBreak(s, Fatal("cons expects 2 arguments"))
    ELSE IF args[2].k # "list" THEN SetBreak(s, Fatal("cons tail must be a list"))
    ELSE SetValue(s, ListV(<<args[1]>> \o args[2].v))

extend(s, label, args) ==
    IF Len(args) # 2 THEN SetBreak(s, Fatal("extend expects 2 arguments"))
    ELSE IF args[2].k # "rec" THEN SetBreak(s, Fatal("extend rest must be a record"))
    ELSE SetValue(s, RecordV((label :> args[1]) @@ args[2].v))

selectField(s, label, args) ==
    IF Len(args) # 1 THEN SetBreak(s, Fatal("select expects 1 argument"))
    ELSE IF args[1].k # "rec" THEN SetBreak(s, Fatal("select argument must be a record"))
    ELSE IF label \in DOMAIN args[1].v THEN SetValue(s, args[1].v[label])
    ELSE SetBreak(s, Fatal("missing label"))

tag(s, label, args) ==
    IF Len(args) # 1 THEN SetBreak(s, Fatal("tag expects 1 argument"))
    ELSE SetValue(s, Tagged(label, args[1]))

\* Case dispatch that treats a tag mismatch as an error.
caseMatchStrict(s, label, args) ==
    IF Len(args) # 3 THEN SetBreak(s, Fatal("case expects 3 arguments"))
    ELSE IF args[3].k = "tagged" /\ args[3].Tag = label
    THEN call(s, args[1], args[3].Value)
    ELSE SetBreak(s, Fatal("case value must be tagged"))

caseMatch(s, label, args) ==
    IF Len(args) # 3 THEN SetBreak(s, Fatal("case expects 3 arguments"))
    ELSE LET branch == args[1]
             otherwise == args[2]
             value == args[3]
         IN  IF value.k = "tagged"
             THEN IF value.Tag = label
                  THEN call(s, branch, value.Value)
                  ELSE call(s, otherwise, value)
             ELSE SetBreak(s, Fatal("case value must be tagged"))

nocases(s, args) == SetBreak(s, Fatal("no cases matched"))

\* perform that also drops the frame awaiting its result.
performDiscardingFrame(s, label, args) ==
    IF Len(args) # 1 THEN SetBreak(s, Fatal("perform expects 1 argument"))
    ELSE SetBreak([s EXCEPT !.Stack = SubSeq(s.Stack, 1, Len(s.Stack) - 1)],
                  Effect(label, args[1]))

perform(s, label, args) ==
    IF Len(args) # 1 THEN SetBreak(s, Fatal("perform expects 1 argument"))
    ELSE SetBreak(s, Effect(label, args[1]))

handle(s, label, args) ==
    IF Len(args) # 2 THEN SetBreak(s, Fatal("handle expects 2 arguments"))
    ELSE LET handler == args[1]
             exec == args[2]
         IN  call(Push(s, DelimitCont(label, handler)), exec, RecordV(<<>>))

\* ------------------------------------------------------------- builtins
FixedPartial(builder) ==
    Partial(EBuiltin("fixed"), <<builder>>, Impl("builtin", "fixed"))

builtinFix(s, args) ==
    IF Len(args) # 1 THEN SetBreak(s, Fatal("fix expects 1 argument"))
    ELSE LET builder == args[1]
             s1 == Push(copyEnv(s), CallCont(FixedPartial(builder), NewEnv(s)))
         IN  SetValue(s1, builder)

\* fixed that hands the builder itself to the builder.
builtinFixedUntied(s, args) ==
    IF Len(args) # 2 THEN SetBreak(s, Fatal("fixed expects 2 arguments"))
    ELSE LET builder == args[1]
             arg == args[2]
             s1 == Push(copyEnv(s), CallCont(arg, NewEnv(s)))
             s2 == Push(copyEnv(s1), CallCont(builder, NewEnv(s1)))
         IN  SetValue(s2, builder)

builtinFixed(s, args) ==
    IF Len(args) # 2 THEN SetBreak(s, Fatal("fixed expects 2 arguments"))
    ELSE LET builder == args[1]
             arg == args[2]
             s1 == Push(copyEnv(s), CallCont(arg, NewEnv(s)))
             s2 == Push(copyEnv(s1), CallCont(FixedPartial(builder), NewEnv(s1)))
         IN  SetValue(s2, builder)

\* int_add, int_subtract, int_multiply share their shape.
builtinIntArith(s, name, args) ==
    IF Len(args) # 2 THEN SetBreak(s, Fatal("expects 2 arguments"))
    ELSE IF args[1].k # "int" \/ args[2].k # "int"
    THEN SetBreak(s, Fatal("expects integer arguments"))
    ELSE LET a == args[1].v
             b == args[2].v
         IN  SetValue(s, IntV(CASE name = "int_add" -> a + b
                                [] name = "int_subtract" -> a - b
                                [] name = "int_multiply" -> a * b))

builtinIntCompare(s, args) ==
    IF Len(args) # 2 THEN SetBreak(s, Fatal("int_compare expects 2 arguments"))
    ELSE IF args[1].k # "int" \/ args[2].k # "int"
    THEN SetBreak(s, Fatal("int_compare expects integer arguments"))
    ELSE LET a == args[1].v
             b == args[2].v
         IN  SetValue(s, Tagged(IF a < b THEN "Lt" ELSE IF a > b THEN "Gt" ELSE "Eq",
                                RecordV(<<>>)))

Abs(n) == IF n < 0 THEN -n ELSE n

\* Go's int division truncates toward zero.
TruncDiv(a, b) ==
    IF (a < 0) = (b < 0) THEN Abs(a) \div Abs(b) ELSE -(Abs(a) \div Abs(b))

builtinIntDivide(s, args) ==
    IF Len(args) # 2 THEN SetBreak(s, Fatal("int_divide expects 2 arguments"))
    ELSE IF args[1].k # "int" \/ args[2].k # "int"
    THEN SetBreak(s, Fatal("int_divide expects integer arguments"))
    ELSE IF args[2].v = 0 THEN SetValue(s, Tagged("Error", RecordV(<<>>)))
    ELSE SetValue(s, Tagged("Ok", IntV(TruncDiv(args[1].v, args[2].v))))

builtinIntAbsolute(s, args) ==
    IF Len(args) # 1 THEN SetBreak(s, Fatal("int_absolute expects 1 argument"))
    ELSE IF args[1].k # "int" THEN SetBreak(s, Fatal("int_absolute expects integer argument"))
    ELSE SetValue(s, IntV(Abs(args[1].v)))

builtinListPop(s, args) ==
    IF Len(args) # 1 THEN SetBreak(s, Fatal("list_pop expects 1 argument"))
    ELSE IF args[1].k # "list" THEN SetBreak(s, Fatal("list_pop expects list argument"))
    ELSE IF Len(args[1].v) = 0 THEN SetValue(s, Tagged("Error", RecordV(<<>>)))
    ELSE SetValue(s, Tagged("Ok", RecordV(("head" :> Head(args[1].v))
                                          @@ ("tail" :> ListV(Tail(args[1].v))))))

\* A fold that hands fn the accumulator first and the element second.
builtinListFoldSwapped(s, args) ==
    IF Len(args) # 3 THEN SetBreak(s, Fatal("list_fold expects 3 arguments"))
    ELSE IF args[1].k # "list"
    THEN SetBreak(s, Fatal("list_fold expects list as first argument"))
    ELSE LET list == args[1].v
             state == args[2]
             fn == args[3]
         IN  IF Len(list) = 0 THEN SetValue(s, state)
             ELSE LET s1 == Push(copyEnv(s), CallCont(fn, NewEnv(s)))
                      s2 == Push(copyEnv(s1),
                                 ApplyCont(Partial(EBuiltin("list_fold"),
                                                   <<ListV(Tail(list))>>,
                                                   Impl("builtin", "list_fold")),
                                           NewEnv(s1)))
                      s3 == Push(copyEnv(s2), CallCont(Head(list), NewEnv(s2)))
                      s4 == Push(copyEnv(s3), CallCont(state, NewEnv(s3)))
                  IN  SetValue(s4, fn)

builtinListFold(s, args) ==
    IF Len(args) # 3 THEN SetBreak(s, Fatal("list_fold expects 3 arguments"))
    ELSE IF args[1].k # "list"
    THEN SetBreak(s, Fatal("list_fold expects list as first argument"))
    ELSE LET list == args[1].v
             state == args[2]
             fn == args[3]
         IN  IF Len(list) = 0 THEN SetValue(s, state)
             ELSE LET s1 == Push(copyEnv(s), CallCont(fn, NewEnv(s)))
                      s2 == Push(copyEnv(s1),
                                 ApplyCont(Partial(EBuiltin("list_fold"),
                                                   <<ListV(Tail(list))>>,
                                                   Impl("builtin", "list_fold")),
                                           NewEnv(s1)))
                      s3 == Push(copyEnv(s2), CallCont(state, NewEnv(s2)))
                      s4 == Push(copyEnv(s3), CallCont(Head(list), NewEnv(s3)))
                  IN  SetValue(s4, fn)

\* ---------------------------------------------------- strings and bytes
IsDigit(b) == b \in 48..57

\* Index of the first element of str at or after i that is not in set.
RECURSIVE SkipWhile(_, _, _)
SkipWhile(str, i, set) ==
    IF i <= Len(str) /\ str[i] \in set THEN SkipWhile(str, i + 1, set) ELSE i

RECURSIVE DigitsValue(_)
DigitsValue(ds) ==
    IF ds = <<>> THEN 0
    ELSE 10 * DigitsValue(SubSeq(ds, 1, Len(ds) - 1)) + (ds[Len(ds)] - 48)

\* fmt.Sscanf(str, "%f", &n) on input without exponent, hex, inf or nan
\* spellings: leading spaces are skipped, then sign, digits, '.', digits;
\* the token must hold a digit; input after the token is left unread.
ScanFloat(str) ==
    LET i1 == SkipWhile(str, 1, {32, 9})
        i2 == IF i1 <= Len(str) /\ str[i1] \in {43, 45} THEN i1 + 1 ELSE i1
        i3 == SkipWhile(str, i2, 48..57)
        i4 == IF i3 <= Len(str) /\ str[i3] = 46 THEN i3 + 1 ELSE i3
        i5 == SkipWhile(str, i4, 48..57)
        frac == SubSeq(str, i4, i5 - 1)
    IN  [ok |-> (i3 > i2) \/ (i4 > i3 /\ i5 > i4),
         neg |-> i2 > i1 /\ str[i1] = 45,
         int |-> DigitsValue(SubSeq(str, i2, i3 - 1)),
         fraction |-> \E j \in 1..Len(frac) : frac[j] # 48]

RECURSIVE DecimalDigits(_)
DecimalDigits(n) ==
    IF n < 10 THEN <<48 + n>> ELSE DecimalDigits(n \div 10) \o <<48 + (n % 10)>>

\* fmt.Sprintf("%.0f", n) of an integral n; neg is the sign bit.
FormatInt(neg, n) == (IF neg THEN <<45>> ELSE <<>>) \o DecimalDigits(n)

\* strings.Index(str, sep), 0-based; -1 when sep does not occur.
Index(str, sep) ==
    LET hits == {i \in 0..(Len(str) - Len(sep)) :
                    SubSeq(str, i + 1, i + Len(sep)) = sep}
    IN  IF hits = {} THEN -1 ELSE CHOOSE i \in hits : \A j \in hits : i <= j

\* base64.StdEncoding: the value of an alphabet byte, -1 for any other.
B64Value(b) ==
    CASE b \in 65..90 -> b - 65
      [] b \in 97..122 -> b - 71
      [] b \in 48..57 -> b + 4
      [] b = 43 -> 62
      [] b = 47 -> 63
      [] OTHER -> -1

B64Char(v) ==
    CASE v \in 0..25 -> v + 65
      [] v \in 26..51 -> v + 71
      [] v \in 52..61 -> v - 4
      [] v = 62 -> 43
      [] v = 63 -> 47

RECURSIVE B64DecodeValues(_)
B64DecodeValues(vs) ==
    CASE Len(vs) >= 4 ->
            << vs[1] * 4 + vs[2] \div 16,
               (vs[2] % 16) * 16 + vs[3] \div 4,
               (vs[3] % 4) * 64 + vs[4] >>
               \o B64DecodeValues(SubSeq(vs, 5, Len(vs)))
      [] Len(vs) = 3 ->
            << vs[1] * 4 + vs[2] \div 16, (vs[2] % 16) * 16 + vs[3] \div 4 >>
      [] Len(vs) = 2 -> << vs[1] * 4 + vs[2] \div 16 >>
      [] OTHER -> <<>>

\* DecodeString of an unpadded text after the caller's padding loop: a text
\* of length 1 mod 4 or with a byte outside the alphabet is an error.
B64Decode(encoded) ==
    LET vs == [i \in 1..Len(encoded) |-> B64Value(encoded[i])]
    IN  IF Len(encoded) % 4 = 1 \/ \E i \in 1..Len(vs) : vs[i] = -1
        THEN [ok |-> FALSE, bytes |-> <<>>]
        ELSE [ok |-> TRUE, bytes |-> B64DecodeValues(vs)]

\* EncodeToString followed by TrimRight(encoded, "=").
RECURSIVE B64Encode(_)
B64Encode(bytes) ==
    CASE Len(bytes) >= 3 ->
            << B64Char(bytes[1] \div 4),
               B64Char((bytes[1] % 4) * 16 + bytes[2] \div 16),
               B64Char((bytes[2] % 16) * 4 + bytes[3] \div 64),
               B64Char(bytes[3] % 64) >>
               \o B64Encode(SubSeq(bytes, 4, Len(bytes)))
      [] Len(bytes) = 2 ->
            << B64Char(bytes[1] \div 4),
               B64Char((bytes[1] % 4) * 16 + bytes[2] \div 16),
               B64Char((bytes[2] % 16) * 4) >>
      [] Len(bytes) = 1 ->
            << B64Char(bytes[1] \div 4), B64Char((bytes[1] % 4) * 16) >>
      [] OTHER -> <<>>

\* utf8.ValidString
RECURSIVE ValidUTF8(_)
ValidUTF8(bs) ==
    LET n == Len(bs)
        cont(i) == i <= n /\ bs[i] \in 128..191
        rest(k) == ValidUTF8(SubSeq(bs, k + 1, n))
    IN  IF n = 0 THEN TRUE
        ELSE CASE bs[1] < 128 -> rest(1)
               [] bs[1] \in 194..223 -> cont(2) /\ rest(2)
               [] bs[1] = 224 -> n >= 2 /\ bs[2] \in 160..191 /\ cont(3) /\ rest(3)
               [] bs[1] \in (225..236) \cup (238..239) -> cont(2) /\ cont(3) /\ rest(3)
               [] bs[1] = 237 -> n >= 2 /\ bs[2] \in 128..159 /\ cont(3) /\ rest(3)
               [] bs[1] = 240 ->
                    n >= 2 /\ bs[2] \in 144..191 /\ cont(3) /\ cont(4) /\ rest(4)
               [] bs[1] \in 241..243 -> cont(2) /\ cont(3) /\ cont(4) /\ rest(4)
               [] bs[1] = 244 ->
                    n >= 2 /\ bs[2] \in 128..143 /\ cont(3) /\ cont(4) /\ rest(4)
               [] OTHER -> FALSE

\* {"/": {"bytes": encoded}}
BinaryV(encoded) == RecordV("/" :> RecordV("bytes" :> StrV(encoded)))

ErrorV == Tagged("Error", RecordV(<<>>))

builtinIntParse(s, args) ==
    IF Len(args) # 1 THEN SetBreak(s, Fatal("int_parse expects 1 argument"))
    ELSE IF args[1].k # "str" THEN SetBreak(s, Fatal("int_parse expects string argument"))
    ELSE LET str == args[1].v
             n == ScanFloat(str)
         IN  IF ~n.ok THEN SetValue(s, ErrorV)
             ELSE IF n.fraction THEN SetValue(s, ErrorV)
             ELSE IF str # FormatInt(n.neg, n.int) THEN SetValue(s, ErrorV)
             ELSE SetValue(s, Tagged("Ok", IntV(IF n.neg THEN 0 - n.int ELSE n.int)))

builtinStringSplitOnce(s, args) ==
    IF Len(args) # 2 THEN SetBreak(s, Fatal("string_split_once expects 2 arguments"))
    ELSE IF args[1].k # "str" \/ args[2].k # "str"
    THEN SetBreak(s, Fatal("string_split_once expects string arguments"))
    ELSE LET str == args[1].v
             sep == args[2].v
             idx == Index(str, sep)
         IN  IF idx = -1 THEN SetValue(s, ErrorV)
             ELSE SetValue(s, Tagged("Ok", RecordV(
                    ("pre" :> StrV(SubSeq(str, 1, idx)))
                    @@ ("post" :> StrV(SubSeq(str, idx + Len(sep) + 1, Len(str)))))))

builtinStringFromBinary(s, args) ==
    IF Len(args) # 1 THEN SetBreak(s, Fatal("string_from_binary expects 1 argument"))
    ELSE IF args[1].k \notin {"rec", "imap"} THEN SetValue(s, ErrorV)
    ELSE IF "/" \notin DOMAIN args[1].v THEN SetValue(s, ErrorV)
    ELSE IF args[1].v["/"].k \notin {"rec", "imap"} THEN SetValue(s, ErrorV)
    ELSE IF "bytes" \notin DOMAIN args[1].v["/"].v THEN SetValue(s, ErrorV)
    ELSE IF args[1].v["/"].v["bytes"].k # "str" THEN SetValue(s, ErrorV)
    ELSE LET decoded == B64Decode(args[1].v["/"].v["bytes"].v)
         IN  IF ~decoded.ok THEN SetValue(s, ErrorV)
             ELSE IF ~ValidUTF8(decoded.bytes) THEN SetValue(s, ErrorV)
             ELSE SetValue(s, Tagged("Ok", StrV(decoded.bytes)))

builtinBinaryFromIntegers(s, args) ==
    IF Len(args) # 1 THEN SetBreak(s, Fatal("binary_from_integers expects 1 argument"))
    ELSE IF args[1].k # "list"
    THEN SetBreak(s, Fatal("binary_from_integers expects list argument"))
    ELSE LET list == args[1].v
         IN  IF \E i \in 1..Len(list) :
                    ~(list[i].k = "int" /\ list[i].v >= 0 /\ list[i].v <= 255)
             THEN SetValue(s, ErrorV)
             ELSE SetValue(s, BinaryV(B64Encode([i \in 1..Len(list) |-> list[i].v])))

\* The implementations modelled; a program of the model uses only these.
\* valuesEqual: the results the call can have, "true", "false" or "panic",
\* over the orders in which the range over a record may meet its keys.
\* The final a == b panics for two map[string]interface{}, which Go cannot
\* compare, and compares closures, partials and resumptions by address: two
\* that differ in content differ in address, two alike may be one or two.
RECURSIVE valuesEqual(_, _)
valuesEqual(a, b) ==
    CASE a.k = "tagged" ->
            IF b.k # "tagged" \/ a.Tag # b.Tag THEN {"false"}
            ELSE valuesEqual(a.Value, b.Value)
      [] a.k = "list" ->
            IF b.k # "list" \/ Len(a.v) # Len(b.v) THEN {"false"}
            ELSE LET bad == {i \in 1..Len(a.v) : valuesEqual(a.v[i], b.v[i]) # {"true"}}
                 IN  IF bad = {} THEN {"true"}
                     ELSE LET i == CHOOSE i \in bad : \A j \in bad : i <= j
                          IN  valuesEqual(a.v[i], b.v[i])
      [] a.k = "rec" ->
            IF b.k # "rec" \/ Cardinality(DOMAIN a.v) # Cardinality(DOMAIN b.v)
            THEN {"false"}
            ELSE LET met == UNION {IF key \notin DOMAIN b.v THEN {"false"}
                                   ELSE valuesEqual(a.v[key], b.v[key]) \ {"true"} :
                                   key \in DOMAIN a.v}
                 IN  IF met = {} THEN {"true"} ELSE met
      [] a.k # b.k -> {"false"}
      [] a.k = "imap" -> {"panic"}
      [] a.k \in {"int", "str"} -> IF a.v = b.v THEN {"true"} ELSE {"false"}
      [] a.k = "nil" -> {"true"}
      [] OTHER -> IF a = b THEN {"true", "false"} ELSE {"false"}

\* equal whose fallback compares nothing.
builtinEqualShallow(s, args) ==
    IF Len(args) # 2 THEN SetBreak(s, Fatal("equal expects 2 arguments"))
    ELSE SetValue(s, Tagged(IF args[1].k = args[2].k THEN "True" ELSE "False",
                            RecordV(<<>>)))

builtinEqual(s, args) ==
    IF Len(args) # 2 THEN SetBreak(s, Fatal("equal expects 2 arguments"))
    ELSE LET results == valuesEqual(args[1], args[2])
             isEqual == IF s.Range \in results THEN s.Range
                        ELSE IF "true" \in results THEN "true"
                        ELSE CHOOSE r \in results : TRUE
         IN  CASE isEqual = "panic" ->
                    SetBreak(s, Panic("comparing uncomparable type map[string]interface {}"))
               [] isEqual = "true" -> SetValue(s, Tagged("True", RecordV(<<>>)))
               [] isEqual = "false" -> SetValue(s, Tagged("False", RecordV(<<>>)))

builtinImpl(s, name, args) ==
    CASE name = "fix" -> builtinFix(s, args)
      [] name = "fixed" -> builtinFixed(s, args)
      [] name \in {"int_add", "int_subtract", "int_multiply"} ->
            builtinIntArith(s, name, args)
      [] name = "int_compare" -> builtinIntCompare(s, args)
      [] name = "int_divide" -> builtinIntDivide(s, args)
      [] name = "int_absolute" -> builtinIntAbsolute(s, args)
      [] name = "list_pop" -> builtinListPop(s, args)
      [] name = "list_fold" -> builtinListFold(s, args)
      [] name = "int_parse" -> builtinIntParse(s, args)
      [] name = "string_split_once" -> builtinStringSplitOnce(s, args)
      [] name = "string_from_binary" -> builtinStringFromBinary(s, args)
      [] name = "binary_from_integers" -> builtinBinaryFromIntegers(s, args)
      [] name = "equal" -> builtinEqual(s, args)

\* f.Impl(s, applied...)
Invoke(s, impl, args) ==
    LET s1 == [s EXCEPT !.Invoked = Append(s.Invoked, [Impl |-> impl, Args |-> args])]
    IN  CASE impl.f = "cons" -> cons(s1, args)
          [] impl.f = "extend" -> extend(s1, impl.l, args)
          [] impl.f = "select" -> selectField(s1, impl.l, args)
          [] impl.f = "tag" -> tag(s1, impl.l, args)
          [] impl.f = "case" -> caseMatch(s1, impl.l, args)
          [] impl.f = "nocases" -> nocases(s1, args)
          [] impl.f = "perform" -> perform(s1, impl.l, args)
          [] impl.f = "handle" -> handle(s1, impl.l, args)
          [] impl.f = "builtin" -> builtinImpl(s1, impl.l, args)

\* ----------------------------------------------------------------- call
callClosure(s, f, arg) ==
    IF "l" \notin DOMAIN f.Lambda
    THEN SetBreak(s, Fatal("lambda missing parameter label"))
    ELSE IF "b" \notin DOMAIN f.Lambda
    THEN SetBreak(s, Fatal("lambda missing body"))
    ELSE LET s1 == [copyEnvFrom(s, s.Heap[f.Captured]) EXCEPT !.Env = NewEnv(s)]
             s2 == toExpressionBreak(Bind(s1, f.Lambda.l, arg), f.Lambda.b)
         IN  SetExpression(s2, toExpression(f.Lambda.b))

\* Partial application that puts the new argument first.
callPartialPrepending(s, f, arg) ==
    LET applied == <<arg>> \o f.Applied
        requiredArgs == getRequiredArgs(f.Exp)
    IN  IF Len(applied) >= requiredArgs
        THEN Invoke(s, f.Impl, applied)
        ELSE SetValue(s, Partial(f.Exp, applied, f.Impl))

\* A Partial call that invokes only once it holds more than enough.
callPartialLate(s, f, arg) ==
    LET applied == Append(f.Applied, arg)
        requiredArgs == getRequiredArgs(f.Exp)
    IN  IF Len(applied) > requiredArgs
        THEN Invoke(s, f.Impl, applied)
        ELSE SetValue(s, Partial(f.Exp, applied, f.Impl))

callPartial(s, f, arg) ==
    LET applied == Append(f.Applied, arg)
        requiredArgs == getRequiredArgs(f.Exp)
    IN  IF Len(applied) >= requiredArgs
        THEN Invoke(s, f.Impl, applied)
        ELSE SetValue(s, Partial(f.Exp, applied, f.Impl))

Reverse(seq) == [i \in 1..Len(seq) |-> seq[Len(seq) + 1 - i]]

\* Reversed[0] is pushed last and so is popped first.
\* A Resume call that pushes the frames first to last.
callResumeForwards(s, f, arg) ==
    SetValue([s EXCEPT !.Stack = s.Stack \o f.Reversed], arg)

callResume(s, f, arg) ==
    SetValue([s EXCEPT !.Stack = s.Stack \o Reverse(f.Reversed)], arg)

call(s, fn, arg) ==
    LET s1 == [s EXCEPT !.Calls = Append(s.Calls, [Fn |-> fn, Arg |-> arg]),
                        !.Bases = Append(s.Bases, s.Stack)]
    IN  CASE fn.k = "closure" -> callClosure(s1, fn, arg)
          [] fn.k = "partial" -> callPartial(s1, fn, arg)
          [] fn.k = "resume" -> callResume(s1, fn, arg)
          [] OTHER -> SetBreak(s1, Fatal("not a function"))

\* ---------------------------------------------------------------- apply
applyAssignCont(s, c, value) == SetExpression(Bind(s, c.Label, value), c.Then)

applyArgCont(s, c, value) ==
    SetExpression([Push(s, ApplyCont(value, c.Env)) EXCEPT !.Env = c.Env], c.Arg)

applyApplyCont(s, c, value) == call([s EXCEPT !.Env = c.Env], c.Func, value)

applyCallCont(s, c, value) == call([s EXCEPT !.Env = c.Env], value, c.Arg)

\* A Delimit case that pops the frame below as well.
applyDelimitContPoppingBelow(s, c, value) == IF Len(s.Stack) > 0 THEN Pop(s) ELSE s

applyDelimitContCallingHandler(s, c, value) == call(s, c.Handle, value)

applyDelimitCont(s, c, value) == s

apply(s) ==
    LET value == s.Control IN
    IF Len(s.Stack) = 0 THEN s
    ELSE LET c == Top(s)
             s1 == Pop(s)
         IN  CASE c.k = "AssignCont" -> applyAssignCont(s1, c, value)
               [] c.k = "ArgCont" -> applyArgCont(s1, c, value)
               [] c.k = "ApplyCont" -> applyApplyCont(s1, c, value)
               [] c.k = "CallCont" -> applyCallCont(s1, c, value)
               [] c.k = "DelimitCont" -> applyDelimitCont(s1, c, value)

\* Step, with the per-step observation logs cleared first.
Step(s) ==
    LET s0 == [s EXCEPT !.Calls = <<>>, !.Invoked = <<>>, !.Bases = <<>>]
    IN  IF s.IsValue THEN apply(s0) ELSE eval(s0)

\* One Step in which the ranges over maps take the order o.
StepUnder(s, o) == [Step([s EXCEPT !.Range = o]) EXCEPT !.Range = NoRange]

\* --------------------------------------------------- Loop / Resume / Eval
\* The test of Loop after each Step.
\* A Loop that returns as soon as Control is a value, frames or not.
\* A Loop that returns on an Effect only and steps on after any other Break.
LoopDoneOnEffect(s) == s.Break.k = "effect" \/ (s.IsValue /\ Len(s.Stack) = 0)

LoopDoneOnValue(s) == s.Break # NoBreak \/ s.IsValue

LoopDone(s) == s.Break # NoBreak \/ (s.IsValue /\ Len(s.Stack) = 0)

\* Resume that forgets to clear Break.
ResumeKeepingBreak(s, value) == SetValue(s, value)

\* State.Resume up to its call of Loop.
Resume(s, value) == [SetValue(s, value) EXCEPT !.Break = NoBreak]

\* ------------------------------------------------------------- programs
Apply2(f, a, b) == EApply(EApply(f, a), b)

Apply3(f, a, b, c) == EApply(Apply2(f, a, b), c)

Unit == RecordV(<<>>)

\* TestDebugHandlerOrder: the thunk body, the handler and the handle call.
PushBody(x1, x2) ==
    ELet("_", EApply(EPerform("Push"), EInt(x1)),
         ELet("_", EApply(EPerform("Push"), EInt(x2)), ETail))

PushHandler ==
    ELambda("value", ELambda("kont",
        Apply2(ECons, EVar("value"), EApply(EVar("kont"), EEmpty))))

HandlerOrder(x1, x2) ==
    Apply2(EHandle("Push"), PushHandler, ELambda("_", PushBody(x1, x2)))

\* handle Alert(|v, _resume| v, |_| perform Alert(x))
AlertAbort(x) ==
    Apply2(EHandle("Alert"), ELambda("v", ELambda("_resume", EVar("v"))),
           ELambda("_", EApply(EPerform("Alert"), EInt(x))))

\* handle L(|v, k| Outer(v), |_| handle L(|v, k| Inner(v), |_| perform L(x)))
TagHandler(t) == ELambda("v", ELambda("k", EApply(ETag(t), EVar("v"))))

NestedHandle(x) ==
    Apply2(EHandle("L"), TagHandler("Outer"),
           ELambda("_", Apply2(EHandle("L"), TagHandler("Inner"),
                               ELambda("_", EApply(EPerform("L"), EInt(x))))))

\* let _ = perform Log(x) in y
LogThen(x, y) == ELet("_", EApply(EPerform("Log"), EInt(x)), EInt(y))

\* handle M(h, |_| perform L(x)): the effect L passes a Delimit for M.
OtherHandler(x) ==
    Apply2(EHandle("M"), TagHandler("Outer"),
           ELambda("_", EApply(EPerform("L"), EInt(x))))

\* let x = perform A(x1) in let y = perform B(x2) in cons(x, cons(y, []))
TwoEffects(x1, x2) ==
    ELet("x", EApply(EPerform("A"), EInt(x1)),
         ELet("y", EApply(EPerform("B"), EInt(x2)),
              Apply2(ECons, EVar("x"), Apply2(ECons, EVar("y"), ETail))))

\* let a = x in let b = (let a = y in a) in a
LetShadow(x, y) ==
    ELet("a", EInt(x), ELet("b", ELet("a", EInt(y), EVar("a")), EVar("a")))

\* let x = (|y| y)(v) in y
LetLeak(v) == ELet("x", EApply(ELambda("y", EVar("y")), EInt(v)), EVar("y"))

\* let f = |y| y in let a = v in let x = f(w) in a
LetLose(v, w) ==
    ELet("f", ELambda("y", EVar("y")),
         ELet("a", EInt(v), ELet("x", EApply(EVar("f"), EInt(w)), EVar("a"))))

\* (perform F(x1))(perform A(x2))
ApplyOrder(x1, x2) ==
    EApply(EApply(EPerform("F"), EInt(x1)), EApply(EPerform("A"), EInt(x2)))

\* Every primitive applied to all of its arguments, one at a time.
AddFn == ELambda("e", ELambda("acc", Apply2(EBuiltin("int_add"), EVar("e"), EVar("acc"))))

List2(x1, x2) == Apply2(ECons, EInt(x1), Apply2(ECons, EInt(x2), ETail))

CurryPrograms(x) ==
    << Apply2(ECons, EInt(x), ETail),
       Apply2(EExtend("a"), EInt(x), EEmpty),
       Apply2(EOverwrite("a"), EInt(x), Apply2(EExtend("a"), EInt(0), EEmpty)),
       EApply(ESelect("a"), Apply2(EExtend("a"), EInt(x), EEmpty)),
       EApply(ETag("T"), EInt(x)),
       Apply2(EBuiltin("int_add"), EInt(x), EInt(1)),
       Apply2(EBuiltin("int_subtract"), EInt(x), EInt(1)),
       Apply2(EBuiltin("int_multiply"), EInt(x), EInt(2)),
       Apply2(EBuiltin("int_compare"), EInt(x), EInt(1)),
       Apply2(EBuiltin("int_divide"), EInt(x), EInt(0)),
       Apply2(EBuiltin("int_divide"), EInt(0 - 3), EInt(x)),
       EApply(EBuiltin("int_absolute"), EInt(0 - x)),
       EApply(EBuiltin("list_pop"), List2(x, 1)),
       Apply3(EBuiltin("list_fold"), List2(x, 1), EInt(0), AddFn),
       Apply2(EBuiltin("fixed"), ELambda("self", ELambda("n", EVar("n"))), EInt(x)),
       EApply(EApply(EBuiltin("fix"), ELambda("self", ELambda("n", EVar("n")))),
              EInt(x)) >>

\* case L(|p| Hit(p), otherwise, scrutinee)
CaseOf(otherwise, scrutinee) ==
    Apply3(ECase("L"), ELambda("p", EApply(ETag("Hit"), EVar("p"))),
           otherwise, scrutinee)

CasePrograms(x) ==
    << CaseOf(ELambda("w", EVar("w")), EApply(ETag("L"), EInt(x))),
       CaseOf(ELambda("w", EVar("w")), EApply(ETag("M"), EInt(x))),
       CaseOf(ENoCases, EApply(ETag("M"), EInt(x))),
       CaseOf(ELambda("w", EVar("w")), EInt(x)),
       CaseOf(Apply2(ECase("M"), ELambda("q", EApply(ETag("Second"), EVar("q"))),
                     ENoCases),
              EApply(ETag("M"), EInt(x))),
       CaseOf(EApply(EPerform("Miss"), EInt(x)), EApply(ETag("M"), EInt(x))) >>

Values == 1..MaxVal

RECURSIVE Flatten(_)
Flatten(seqs) == IF seqs = <<>> THEN <<>> ELSE Head(seqs) \o Flatten(Tail(seqs))

EBinary(encoded) ==
    [op |-> BINARY, v |-> JsonMap("/" :> JsonMap("bytes" :> StrV(encoded)))]

RECURSIVE SetToSeq(_)
SetToSeq(S) ==
    IF S = {} THEN <<>>
    ELSE LET e == CHOOSE e \in S : TRUE IN <<e>> \o SetToSeq(S \ {e})

\* The bytes of '-', '.', '0', '1' and 'a'.
Alphabet == {45, 46, 48, 49, 97}

StringsUpTo(n) == SetToSeq(UNION {[1..m -> Alphabet] : m \in 0..n})

RECURSIVE ListOf(_)
ListOf(es) == IF es = <<>> THEN ETail ELSE Apply2(ECons, Head(es), ListOf(Tail(es)))

\* let r = e in r
Bound(e) == ELet("r", e, EVar("r"))

\* "YQ", "w6k", "/w", "Y", "!Q", "YWE", "YWFh", "4oKs", "7aCA"
Encodings ==
    << <<89, 81>>, <<119, 54, 107>>, <<47, 119>>, <<89>>, <<33, 81>>,
       <<89, 87, 69>>, <<89, 87, 70, 104>>, <<52, 111, 75, 115>>,
       <<55, 97, 67, 65>> >>

DomainPrograms ==
    [i \in 1..Len(StringsUpTo(MaxStrLen)) |->
        Bound(EApply(EBuiltin("int_parse"), EStr(StringsUpTo(MaxStrLen)[i])))]
    \o Flatten([i \in 1..Len(StringsUpTo(MaxStrLen)) |->
          [j \in 1..Len(StringsUpTo(1)) |->
              Bound(Apply2(EBuiltin("string_split_once"),
                           EStr(StringsUpTo(MaxStrLen)[i]),
                           EStr(StringsUpTo(1)[j])))]])
    \o [i \in 1..Len(Encodings) |->
          Bound(EApply(EBuiltin("string_from_binary"), EBinary(Encodings[i])))]
    \o << Bound(EApply(EBuiltin("string_from_binary"), EInt(1))),
          Bound(EApply(EBuiltin("string_from_binary"), EEmpty)),
          Bound(EApply(EBuiltin("string_from_binary"),
                       Apply2(EExtend("/"), EInt(1), EEmpty))),
          Bound(EApply(EBuiltin("binary_from_integers"), ETail)),
          Bound(EApply(EBuiltin("binary_from_integers"), ListOf(<<EInt(256)>>))),
          Bound(EApply(EBuiltin("binary_from_integers"), ListOf(<<EInt(0 - 1)>>))),
          Bound(EApply(EBuiltin("binary_from_integers"), ListOf(<<EEmpty>>))),
          Bound(EApply(EBuiltin("binary_from_integers"),
                       ListOf(<<EInt(255), EInt(254), EInt(253)>>))),
          Bound(EApply(EBuiltin("list_pop"), ETail)) >>
    \o Flatten([x \in Values |->
          << Bound(EApply(EBuiltin("binary_from_integers"), ListOf(<<EInt(x)>>))),
             Bound(EApply(EBuiltin("binary_from_integers"),
                          ListOf(<<EInt(x), EInt(97)>>))),
             Bound(Apply2(EBuiltin("int_divide"), EInt(x), EInt(0))),
             Bound(Apply2(EBuiltin("int_divide"), EInt(0 - 7), EInt(x))),
             Bound(Apply2(EBuiltin("int_divide"), EInt(7), EInt(0 - x))),
             Bound(EApply(EBuiltin("list_pop"), List2(x, 1))) >>])

\* A let in argument position: T(let x = v in x), and the same as the
\* value of an outer let whose body reads x.
LetInArgument(v) ==
    << EApply(ETag("T"), ELet("x", EInt(v), EVar("x"))),
       Apply2(EBuiltin("int_add"), ELet("x", EInt(v), EVar("x")),
              ELet("y", EInt(1), EVar("y"))),
       ELet("y", EApply(ETag("T"), ELet("x", EInt(v), EVar("x"))), EVar("x")) >>

\* let a = v in let f = (|y| let b = y in a) in let a = 0 in [f(1), f(2)]
ClosureTwice(v) ==
    ELet("a", EInt(v),
      ELet("f", ELambda("y", ELet("b", EVar("y"), EVar("a"))),
        ELet("a", EInt(0),
          Apply2(ECons, EApply(EVar("f"), EInt(1)),
                 Apply2(ECons, EApply(EVar("f"), EInt(2)), ETail)))))

UndefinedPrograms(x) ==
    << EVar("u"),
       EApply(EVar("u"), EInt(x)),
       Apply2(EBuiltin("int_add"), EInt(x), EVar("u")),
       ELet("a", EInt(x), EVar("b")),
       ELet("a", EInt(x), Apply2(ECons, EVar("a"), EApply(ETag("T"), EVar("b")))),
       EApply(ELambda("y", EVar("z")), EInt(x)),
       EBuiltin("int_negate"),
       Apply2(EBuiltin("int_negate"), EInt(x), EInt(1)),
       Apply2(EBuiltin("int_add"), EInt(x), EApply(EBuiltin("string_reverse"), EInt(1))),
       EApply(ELambda("y", EApply(EBuiltin("int_negate"), EVar("y"))), EInt(x)) >>

\* fix(|self| |n| match int_compare(n, 0) { Eq(_) -> 1, (_) -> n * self(n - 1) })
FactBuilder ==
    ELambda("self", ELambda("n",
        Apply3(ECase("Eq"), ELambda("_", EInt(1)),
               ELambda("_", Apply2(EBuiltin("int_multiply"), EVar("n"),
                   EApply(EVar("self"),
                          Apply2(EBuiltin("int_subtract"), EVar("n"), EInt(1))))),
               Apply2(EBuiltin("int_compare"), EVar("n"), EInt(0)))))

Fact(n) == EApply(EApply(EBuiltin("fix"), FactBuilder), EInt(n))

FactIn(n) == Apply2(ECons, Fact(n), ETail)

FixPrograms == Flatten([i \in 1..(MaxDepth + 1) |-> << Fact(i - 1), FactIn(i - 1) >>])

\* Trees with a node that lacks its type field, has an unknown type, or
\* lacks a required field; alone, in evaluated and in unevaluated positions.
MalformedNodes ==
    << [l |-> "x"],
       [op |-> "??"],
       [op |-> VAR],
       [op |-> LAMBDA_, l |-> "x"],
       [op |-> LAMBDA_, b |-> EInt(1)],
       [op |-> APPLY, f |-> ELambda("x", EVar("x"))],
       [op |-> APPLY, a |-> EInt(1)],
       [op |-> LET_, v |-> EInt(1), t |-> EInt(2)],
       [op |-> LET_, l |-> "x", t |-> EInt(2)],
       [op |-> LET_, l |-> "x", v |-> EInt(1)],
       [op |-> INT],
       [op |-> STRING_],
       [op |-> BINARY] >>

MalformedPrograms ==
    Flatten([i \in 1..Len(MalformedNodes) |->
        << MalformedNodes[i],
           EApply(MalformedNodes[i], EInt(1)),
           EApply(ELambda("y", MalformedNodes[i]), EInt(1)),
           ELet("y", EInt(1), MalformedNodes[i]),
           Apply2(ECons, EInt(1), Apply2(ECons, MalformedNodes[i], ETail)),
           ELambda("y", MalformedNodes[i]),
           ELet("g", ELambda("y", MalformedNodes[i]), EInt(1)) >>])

Rec1(l, e) == Apply2(EExtend(l), e, EEmpty)

Rec2(l1, e1, l2, e2) == Apply2(EExtend(l1), e1, Rec1(l2, e2))

\* Data values of every variant; "YQ" is the base64 text of the byte 97.
EqualOperands ==
    << EInt(1), EInt(MaxVal), EStr(<<97>>), EStr(<<>>), ETail,
       List2(1, MaxVal), List2(MaxVal, 1), ListOf(<<EInt(1)>>),
       EEmpty, Rec1("a", EInt(1)), Rec1("a", EInt(MaxVal)), Rec1("b", EInt(1)),
       Rec2("a", EInt(1), "b", EInt(MaxVal)), Rec2("b", EInt(MaxVal), "a", EInt(1)),
       EApply(ETag("T"), EInt(1)), EApply(ETag("U"), EInt(1)),
       EApply(ETag("T"), EInt(MaxVal)), EApply(ETag("T"), ETail),
       EBinary(<<89, 81>>),
       EApply(EBuiltin("binary_from_integers"), ListOf(<<EInt(97)>>)),
       Rec2("a", EBinary(<<89, 81>>), "b", EInt(1)),
       Rec2("a", EBinary(<<89, 81>>), "b", EInt(MaxVal)),
       ListOf(<<EBinary(<<89, 81>>)>>) >>

EqualPrograms ==
    Flatten([i \in 1..Len(EqualOperands) |->
        [j \in 1..Len(EqualOperands) |->
            Apply2(EBuiltin("equal"), EqualOperands[i], EqualOperands[j])]])

\* handle L(h, thunk) with a thunk that never performs L: under a tag, around
\* a primitive call, and around an effect with another label.
HandlePrograms(x) ==
    << EApply(ETag("T"), Apply2(EHandle("L"), TagHandler("Outer"),
                                ELambda("_", EInt(x)))),
       Apply2(EHandle("L"), TagHandler("Outer"),
              ELambda("_", Apply2(EBuiltin("int_add"), EInt(x), EInt(1)))),
       EApply(ETag("T"), Apply2(EHandle("L"), TagHandler("Outer"),
                                ELambda("_", LogThen(1, x)))) >>

EVacant == [op |-> VACANT]

\* A literal alone, and as the argument of a tag under a let, where the
\* Stack holds a frame and the environment a binding.
LiteralPrograms(x) ==
    << EVacant, EInt(x), EStr(<<97>>),
       ELet("a", EInt(x), EApply(ETag("T"), EVacant)),
       ELet("a", EInt(x), EApply(ETag("T"), EInt(x))),
       ELet("a", EInt(x), EApply(ETag("T"), EStr(<<97, 48>>))),
       ELet("a", EInt(x), EApply(ETag("T"), EBinary(<<89, 81>>))) >>

\* list_fold([1, ..., n], [], |e| |acc| cons(e, acc)), alone and under a tag:
\* a left fold gives [n, ..., 1].
MaxFold == 3

ConsFn == ELambda("e", ELambda("acc", Apply2(ECons, EVar("e"), EVar("acc"))))

UpTo(n) == ListOf([i \in 1..n |-> EInt(i)])

FoldRev(n) == Apply3(EBuiltin("list_fold"), UpTo(n), ETail, ConsFn)

FoldIn(n) == EApply(ETag("T"), FoldRev(n))

FoldPrograms == Flatten([i \in 1..(MaxFold + 1) |-> << FoldRev(i - 1), FoldIn(i - 1) >>])

Programs ==
    DomainPrograms \o FixPrograms \o MalformedPrograms \o EqualPrograms
    \o FoldPrograms
    \o Flatten([x \in Values |->
        << AlertAbort(x), NestedHandle(x), OtherHandler(x), LetLeak(x) >>
        \o UndefinedPrograms(x) \o LetInArgument(x) \o <<ClosureTwice(x)>>
        \o CurryPrograms(x) \o CasePrograms(x) \o HandlePrograms(x)
        \o LiteralPrograms(x)
        \o Flatten([y \in Values |->
              << HandlerOrder(x, y), LogThen(x, y), TwoEffects(x, y),
                 LetShadow(x, y), LetLose(x, y), ApplyOrder(x, y) >>])])

\* What the host may answer an escaped effect with.
Replies == [i \in Values |-> IntV(i)] \o <<Unit, Partial(ETag("R"), <<>>, Impl("tag", "R"))>>

\* ------------------------------------------------------ the state machine
VARIABLES src, state, pc, effects, replies

vars == <<src, state, pc, effects, replies>>

\* Eval(src): NewState, then Loop.
Init ==
    /\ \E i \in 1..Len(Programs) : src = Programs[i]
    /\ state = NewState(src)
    /\ pc = "Loop"
    /\ effects = <<>>
    /\ replies = <<>>

\* One iteration of Loop: Step, then return or go round again.
LoopStep ==
    /\ pc = "Loop"
    /\ \E o \in RangeOrders : state' = StepUnder(state, o)
    /\ pc' = IF LoopDone(state') THEN "returned" ELSE "Loop"
    /\ UNCHANGED <<src, effects, replies>>

\* runTestSuite, for a state returned with an Effect: note the effect and
\* call state.Resume(reply).
HostResume(reply) ==
    /\ pc = "returned"
    /\ state.Break.k = "effect"
    /\ Len(effects) < MaxEffects
    /\ effects' = Append(effects, state.Break)
    /\ replies' = Append(replies, reply)
    /\ state' = Resume(state, reply)
    /\ pc' = "Loop"
    /\ UNCHANGED src

Next == LoopStep \/ \E i \in 1..Len(Replies) : HostResume(Replies[i])

Spec == Init /\ [][Next]_vars

\* Runs in which the embedding binds k to a Resume before Eval: the frames
\* a Resume holds apply a tag each, so the result shows the order of pops.
TagFrame(t) == ApplyCont(Partial(ETag(t), <<>>, Impl("tag", t)), 1)

CapturedFrames == <<TagFrame("A"), TagFrame("B"), TagFrame("C")>>

Captures ==
    SetToSeq(UNION {[1..n -> 1..Len(CapturedFrames)] : n \in 0..MaxFrames})

ResumeOf(c) == ResumeValue([i \in 1..Len(c) |-> CapturedFrames[c[i]]])

ResumePrograms ==
    Flatten([x \in Values |->
        << EApply(EVar("k"), EInt(x)),
           EApply(ETag("Z"), EApply(EVar("k"), EInt(x))),
           Apply2(ECons, EApply(EVar("k"), EInt(x)),
                  Apply2(ECons, EApply(EVar("k"), EInt(1)), ETail)) >>])

ResumeInit ==
    /\ \E i \in 1..Len(ResumePrograms) : src = ResumePrograms[i]
    /\ \E i \in 1..Len(Captures) :
          state = [NewState(src) EXCEPT !.Heap = << "k" :> ResumeOf(Captures[i]) >>]
    /\ pc = "Loop"
    /\ effects = <<>>
    /\ replies = <<>>

ResumeSpec == ResumeInit /\ [][LoopStep]_vars

\* Loop is a for loop: it keeps stepping until it returns.
FairSpec == Spec /\ WF_vars(LoopStep)

\* Loop has returned and the host has nothing to resume.
Final == pc = "returned" /\ state.Break.k # "effect"

\* ======================================================== properties
Delimits(stack, label) ==
    {i \in 1..Len(stack) : stack[i].k = "DelimitCont" /\ stack[i].Label = label}

HasDelimit(stack, label) == Delimits(stack, label) # {}

\* The Delimit for label nearest the top of the stack.
NearestDelimit(stack, label) ==
    stack[CHOOSE i \in Delimits(stack, label) :
              \A j \in Delimits(stack, label) : j <= i]

IsPrefix(p, q) == Len(p) <= Len(q) /\ p = SubSeq(q, 1, Len(p))

\* C1: Loop never returns to the host with Break = Effect{L, v} while a
\* Delimit frame with label L is on the Stack; such an effect is resolved
\* in the machine by calling that frame's handler.
C1_EffectResolvedInMachine ==
    (pc = "returned" /\ state.Break.k = "effect")
        => ~HasDelimit(state.Stack, state.Break.Label)

\* C2: for handle Push(|v, k| cons(v, k({})), thunk) whose thunk performs
\* Push(x1), Push(x2) and returns [], Eval ends with no Break and Control
\* equal to the list [x1, x2].
C2_OrderPreservingResumption ==
    \A x1 \in Values, x2 \in Values :
        (pc = "returned" /\ src = HandlerOrder(x1, x2))
            => /\ state.Break = NoBreak
               /\ state.Control = ListV(<<IntV(x1), IntV(x2)>>)

\* C3: a handler that returns r without calling its resume argument makes
\* r the value of the whole handle expression: handle Alert(|v, _| v,
\* |_| perform Alert(x)) ends with Control = x, no Break and an empty Stack.
C3_NoResumeAbort ==
    \A x \in Values :
        (pc = "returned" /\ src = AlertAbort(x))
            => /\ state.Break = NoBreak
               /\ state.Control = IntV(x)
               /\ state.Stack = <<>>

\* C4: a step in which perform(L, v) is executed while Delimit frames for L
\* are on the Stack calls the handler of the Delimit nearest the top with v.
C4_InnermostHandlerInvoked ==
    [][\A i \in 1..Len(state'.Invoked) :
          LET inv == state'.Invoked[i] IN
          (pc = "Loop" /\ inv.Impl.f = "perform"
                       /\ HasDelimit(state'.Stack, inv.Impl.l))
              => \E j \in 1..Len(state'.Calls) :
                    state'.Calls[j] =
                        [Fn |-> NearestDelimit(state'.Stack, inv.Impl.l).Handle,
                         Arg |-> inv.Args[1]]]_vars

\* The Delimit frames pushed by the handle invocations of one step.
RECURSIVE DelimitsPushed(_)
DelimitsPushed(invoked) ==
    IF invoked = <<>> THEN <<>>
    ELSE (IF Head(invoked).Impl.f = "handle" /\ Len(Head(invoked).Args) = 2
          THEN <<DelimitCont(Head(invoked).Impl.l, Head(invoked).Args[1])>>
          ELSE <<>>) \o DelimitsPushed(Tail(invoked))

\* C5: when perform(L, v) is called and no Delimit with label L is on the
\* Stack, the machine stops with Break = Effect{L, v}, v being exactly the
\* argument of the call, and the perform call changes neither Stack nor Env:
\* the Stack is the one the step had built when perform was called (the
\* popped frame gone, the frames below it still there) and Env is the
\* popped frame's.
C5_UnhandledEffectTransparency ==
    [][(pc = "Loop" /\ state'.Break.k = "effect"
           /\ ~HasDelimit(state'.Stack, state'.Break.Label))
        => LET c == state'.Calls[Len(state'.Calls)] IN
           /\ c.Fn.k = "partial" /\ c.Fn.Exp.op = PERFORM
           /\ state'.Break = Effect(c.Fn.Exp.l, c.Arg)
           /\ state'.Stack = SubSeq(state.Stack, 1, Len(state.Stack) - 1)
                                \o DelimitsPushed(state'.Invoked)
           /\ state'.Env = Top(state).Env
           /\ state'.Heap = state.Heap
           /\ pc' = "returned"]_vars

C5_Witness ==
    /\ pc = "returned" /\ state.Break.k = "effect"
    /\ ~HasDelimit(state.Stack, state.Break.Label)
    /\ Len(state.Stack) > 1
    /\ state.Calls # <<>> /\ state.Calls[Len(state.Calls)].Fn.Exp.op = PERFORM

\* C6: State.Resume(reply) on a state stopped on an escaped Effect clears
\* the Break, makes reply the Control value, keeps Stack and Env, and goes
\* on stepping; the escaped effects of a run surface one at a time in
\* evaluation order, and after the last reply the final Control is the
\* value the program has when each perform returns its reply.
C6_HostResumption ==
    [][/\ (pc = "returned" /\ pc' = "Loop")
            => /\ state'.Break = NoBreak
               /\ state'.IsValue
               /\ state'.Control = replies'[Len(replies')]
               /\ state'.Stack = state.Stack
               /\ state'.Env = state.Env
               /\ state'.Heap = state.Heap
               /\ effects' = Append(effects, state.Break)
       /\ \A x1 \in Values, x2 \in Values :
            LET expected == <<Effect("A", IntV(x1)), Effect("B", IntV(x2))>> IN
            src = TwoEffects(x1, x2)
                => /\ IsPrefix(effects', expected)
                   /\ (pc' = "returned" /\ state'.Break.k = "effect")
                        => /\ Len(effects') < 2
                           /\ state'.Break = expected[Len(effects') + 1]
                   /\ (pc' = "returned" /\ state'.Break.k # "effect")
                        => /\ state'.Break = NoBreak
                           /\ Len(replies') = 2
                           /\ state'.Control = ListV(replies')
                           /\ state'.Stack = <<>>
       /\ \A x \in Values, y \in Values :
            (src = LogThen(x, y) /\ pc' = "returned" /\ state'.Break.k # "effect")
                => /\ state'.Break = NoBreak
                   /\ effects' = <<Effect("Log", IntV(x))>>
                   /\ state'.Control = IntV(y)]_vars

C6_Witness ==
    /\ Final /\ src = TwoEffects(1, 2)
    /\ Len(replies) = 2 /\ state.Control = ListV(replies)

\* C7: when the AssignCont of Let{label, value, then} entered in
\* environment E is applied to value's result, then is evaluated in exactly
\* E extended with label bound to that result.
C7_LetLexicalScope ==
    [][(pc = "Loop" /\ state.IsValue /\ Len(state.Stack) > 0
           /\ Top(state).k = "AssignCont")
        => /\ ~state'.IsValue
           /\ state'.Control = Top(state).Then
           /\ EnvMap(state') = (Top(state).Label :> state.Control)
                                   @@ state.Heap[Top(state).Env]]_vars

\* C8: Apply{f, a} evaluates f first with a waiting in an ArgCont, starts a
\* only when f is a value, and calls f's value only when a is a value too;
\* a perform in f surfaces before a perform in a.
C8_FunctionFirstOrder ==
    [][pc = "Loop" =>
        /\ (~state.IsValue /\ "op" \in DOMAIN state.Control
               /\ state.Control.op = APPLY
               /\ "f" \in DOMAIN state.Control /\ "a" \in DOMAIN state.Control)
            => /\ ~state'.IsValue
               /\ state'.Control = state.Control.f
               /\ Len(state'.Stack) = Len(state.Stack) + 1
               /\ Top(state').k = "ArgCont"
               /\ Top(state').Arg = state.Control.a
        /\ (state.IsValue /\ Len(state.Stack) > 0 /\ Top(state).k = "ArgCont")
            => /\ ~state'.IsValue
               /\ state'.Control = Top(state).Arg
               /\ Top(state') = ApplyCont(state.Control, Top(state).Env)
        /\ (state.IsValue /\ Len(state.Stack) > 0 /\ Top(state).k = "ApplyCont")
            => /\ state'.Calls # <<>>
               /\ state'.Calls[1] = [Fn |-> Top(state).Func, Arg |-> state.Control]
        /\ \A x1 \in Values, x2 \in Values :
            LET expected == <<Effect("F", IntV(x1)), Effect("A", IntV(x2))>> IN
            src = ApplyOrder(x1, x2)
                => /\ IsPrefix(effects', expected)
                   /\ state'.Break.k = "effect"
                        => /\ Len(effects') < 2
                           /\ state'.Break = expected[Len(effects') + 1]]_vars

C8_Witness ==
    /\ Final /\ src = ApplyOrder(1, 2)
    /\ effects = <<Effect("F", IntV(1)), Effect("A", IntV(2))>>
    /\ state.Control = Tagged("R", IntV(2))

\* The number of arguments each implementation checks for.
ExpectedArgs(impl) ==
    CASE impl.f \in {"select", "tag", "perform", "nocases"} -> 1
      [] impl.f \in {"cons", "extend", "handle"} -> 2
      [] impl.f = "case" -> 3
      [] impl.f = "builtin" /\ impl.l \in {"fix", "int_absolute", "list_pop",
               "int_parse", "string_from_binary", "binary_from_integers",
               "int_to_string", "string_uppercase", "string_lowercase",
               "string_length", "string_to_binary"} -> 1
      [] impl.f = "builtin" /\ impl.l \in {"fixed", "int_add", "int_subtract",
               "int_multiply", "int_compare", "int_divide",
               "string_split_once", "equal", "string_append", "string_split",
               "string_ends_with", "string_starts_with"} -> 2
      [] impl.f = "builtin" /\ impl.l \in {"list_fold", "string_replace",
               "binary_fold"} -> 3

IsArityBreak(b) ==
    b.k = "error" /\ b.msg \in
        {"cons expects 2 arguments", "extend expects 2 arguments",
         "select expects 1 argument", "tag expects 1 argument",
         "case expects 3 arguments", "perform expects 1 argument",
         "handle expects 2 arguments", "fix expects 1 argument",
         "fixed expects 2 arguments", "expects 2 arguments",
         "int_compare expects 2 arguments", "int_divide expects 2 arguments",
         "int_absolute expects 1 argument", "list_pop expects 1 argument",
         "list_fold expects 3 arguments", "int_parse expects 1 argument",
         "string_split_once expects 2 arguments",
         "string_from_binary expects 1 argument",
         "binary_from_integers expects 1 argument",
         "equal expects 2 arguments"}

Invocations(s, impl, args) ==
    {i \in 1..Len(s.Invoked) : s.Invoked[i] = [Impl |-> impl, Args |-> args]}

\* C9: every call of a primitive of arity n that holds k - 1 < n arguments
\* either (k < n) yields a Partial holding the k arguments in application
\* order without invoking the implementation, or (k = n) invokes the
\* implementation exactly once with the n arguments in application order;
\* order-sensitive primitives give the result of that order.
C9_CurryingLaw ==
    [][pc = "Loop" =>
        /\ \A j \in 1..Len(state'.Calls) :
            LET p == state'.Calls[j].Fn
                applied == Append(p.Applied, state'.Calls[j].Arg)
            IN  p.k = "partial" =>
                  /\ Len(p.Applied) < ExpectedArgs(p.Impl)
                  /\ Len(applied) < ExpectedArgs(p.Impl)
                       => /\ j = Len(state'.Calls)
                          /\ state'.IsValue
                          /\ state'.Control = Partial(p.Exp, applied, p.Impl)
                          /\ state'.Break = NoBreak
                          /\ Invocations(state', p.Impl, applied) = {}
                  /\ Len(applied) = ExpectedArgs(p.Impl)
                       => /\ Cardinality(Invocations(state', p.Impl, applied)) = 1
                          /\ ~IsArityBreak(state'.Break)
        /\ \A x \in Values :
            (pc' = "returned" /\ state'.Break.k # "effect") =>
              /\ src = Apply2(ECons, EInt(x), ETail)
                    => state'.Control = ListV(<<IntV(x)>>)
              /\ src = Apply2(EBuiltin("int_subtract"), EInt(x), EInt(1))
                    => state'.Control = IntV(x - 1)
              /\ src = Apply2(EBuiltin("int_divide"), EInt(0 - 3), EInt(x))
                    => state'.Control = Tagged("Ok", IntV(0 - (3 \div x)))]_vars

C9_Witness ==
    /\ pc = "Loop" /\ state.Calls # <<>>
    /\ state.Calls[1].Fn.k = "partial" /\ Len(state.Calls[1].Fn.Applied) = 2
    /\ state.Invoked # <<>> /\ Len(state.Invoked[1].Args) = 3
    /\ state.Invoked[1].Args[1] = state.Calls[1].Fn.Applied[1]

\* C10: case L applied to (branch, otherwise, scrutinee) calls branch with
\* the payload when the scrutinee is Tagged with tag L, calls otherwise with
\* the whole Tagged scrutinee when its tag differs (no Break comes from the
\* mismatch: a closure otherwise starts its body with its parameter bound to
\* the scrutinee), and gives the fatal Break only for a scrutinee that is
\* not Tagged.
C10_CaseDispatch ==
    [][pc = "Loop" =>
        \A i \in 1..Len(state'.Invoked) :
          LET inv == state'.Invoked[i]
              branch == inv.Args[1]
              otherwise == inv.Args[2]
              value == inv.Args[3]
              called(fn, arg) ==
                  \E j \in 1..Len(state'.Calls) :
                      state'.Calls[j] = [Fn |-> fn, Arg |-> arg]
          IN  (inv.Impl.f = "case" /\ Len(inv.Args) = 3) =>
                /\ (value.k = "tagged" /\ value.Tag = inv.Impl.l)
                     => /\ called(branch, value.Value)
                        /\ state'.Break # Fatal("case value must be tagged")
                /\ (value.k = "tagged" /\ value.Tag # inv.Impl.l)
                     => /\ called(otherwise, value)
                        /\ state'.Break # Fatal("case value must be tagged")
                        /\ otherwise.k = "closure"
                             => /\ state'.Break = NoBreak
                                /\ ~state'.IsValue
                                /\ state'.Control = otherwise.Lambda.b
                                /\ EnvMap(state')[otherwise.Lambda.l] = value
                /\ value.k # "tagged"
                     => /\ state'.Break = Fatal("case value must be tagged")
                        /\ Len(state'.Calls) = 1]_vars

C10_Witness ==
    /\ state.Invoked # <<>> /\ state.Invoked[1].Impl.f = "case"
    /\ state.Invoked[1].Args[3].k = "tagged"
    /\ state.Invoked[1].Args[3].Tag # state.Invoked[1].Impl.l
    /\ state.Break = NoBreak /\ ~state.IsValue
    /\ state.Calls[Len(state.Calls)].Arg = state.Invoked[1].Args[3]

\* A text that spells an integer: an optional '-' and one or more digits.
IsIntegerText(str) ==
    LET ds == IF str # <<>> /\ str[1] = 45 THEN Tail(str) ELSE str
    IN  ds # <<>> /\ \A i \in 1..Len(ds) : IsDigit(ds[i])

\* The same without a superfluous leading zero.
IsCanonicalIntegerText(str) ==
    LET ds == IF str # <<>> /\ str[1] = 45 THEN Tail(str) ELSE str
    IN  IsIntegerText(str) /\ (Len(ds) > 1 => ds[1] # 48)

IntegerTextValue(str) ==
    IF str[1] = 45 THEN 0 - DigitsValue(Tail(str)) ELSE DigitsValue(str)

Occurs(str, sep) ==
    \E i \in 0..(Len(str) - Len(sep)) : SubSeq(str, i + 1, i + Len(sep)) = sep

IsOk(r) == r.k = "tagged" /\ r.Tag = "Ok"

\* The texts the encodings of the model decode to; <<-1>> where the bytes
\* are not base64 or not UTF-8.
DecodedText(encoded) ==
    CASE encoded = <<89, 81>> -> <<97>>
      [] encoded = <<119, 54, 107>> -> <<195, 169>>
      [] encoded = <<89, 87, 69>> -> <<97, 97>>
      [] encoded = <<89, 87, 70, 104>> -> <<97, 97, 97>>
      [] encoded = <<52, 111, 75, 115>> -> <<226, 130, 172>>
      [] OTHER -> <<-1>>

IsBinary(v) ==
    /\ v.k \in {"rec", "imap"} /\ DOMAIN v.v = {"/"}
    /\ v.v["/"].k \in {"rec", "imap"} /\ DOMAIN v.v["/"].v = {"bytes"}
    /\ v.v["/"].v["bytes"].k = "str"

IsByteList(v) ==
    v.k = "list" /\ \A i \in 1..Len(v.v) : v.v[i].k = "int" /\ v.v[i].v \in 0..255

\* What C11 requires of the value r a domain primitive gives for args.
DomainResult(name, args, r) ==
    CASE name = "int_divide" ->
            IF args[2].v = 0 THEN r = ErrorV
            ELSE /\ IsOk(r) /\ r.Value.k = "int"
                 /\ Abs(r.Value.v) * Abs(args[2].v) <= Abs(args[1].v)
                 /\ Abs(args[1].v) < (Abs(r.Value.v) + 1) * Abs(args[2].v)
                 /\ (r.Value.v # 0 => (r.Value.v > 0 <=> (args[1].v > 0 <=> args[2].v > 0)))
      [] name = "int_parse" ->
            /\ r = ErrorV \/ IsOk(r)
            /\ ~IsIntegerText(args[1].v) => r = ErrorV
            /\ IsCanonicalIntegerText(args[1].v)
                 => r = Tagged("Ok", IntV(IntegerTextValue(args[1].v)))
      [] name = "list_pop" ->
            IF args[1].v = <<>> THEN r = ErrorV
            ELSE /\ IsOk(r) /\ r.Value.k = "rec"
                 /\ DOMAIN r.Value.v = {"head", "tail"}
                 /\ r.Value.v["tail"].k = "list"
                 /\ <<r.Value.v["head"]>> \o r.Value.v["tail"].v = args[1].v
      [] name = "string_split_once" ->
            IF ~Occurs(args[1].v, args[2].v) THEN r = ErrorV
            ELSE /\ IsOk(r) /\ r.Value.k = "rec"
                 /\ DOMAIN r.Value.v = {"pre", "post"}
                 /\ r.Value.v["pre"].k = "str" /\ r.Value.v["post"].k = "str"
                 /\ r.Value.v["pre"].v \o args[2].v \o r.Value.v["post"].v = args[1].v
                 /\ \A i \in 0..(Len(r.Value.v["pre"].v) - 1) :
                        SubSeq(args[1].v, i + 1, i + Len(args[2].v)) # args[2].v
      [] name = "string_from_binary" ->
            IF ~IsBinary(args[1]) THEN r = ErrorV
            ELSE IF DecodedText(args[1].v["/"].v["bytes"].v) = <<-1>> THEN r = ErrorV
            ELSE r = Tagged("Ok", StrV(DecodedText(args[1].v["/"].v["bytes"].v)))
      [] name = "binary_from_integers" ->
            IF ~IsByteList(args[1]) THEN r = ErrorV
            ELSE /\ IsOk(r) /\ IsBinary(r.Value)
                 /\ args[1].v = <<IntV(255), IntV(254), IntV(253)>>
                      => r.Value = BinaryV(<<47, 47, 55, 57>>)

DomainPrimitives ==
    {"int_divide", "int_parse", "list_pop", "string_split_once",
     "string_from_binary", "binary_from_integers"}

\* The arguments on which the primitive reports a domain error or succeeds,
\* in place of the fatal Break of a mistyped argument.
DomainArgs(name, args) ==
    CASE name \in {"int_divide"} -> args[1].k = "int" /\ args[2].k = "int"
      [] name = "int_parse" -> args[1].k = "str"
      [] name = "list_pop" -> args[1].k = "list"
      [] name = "string_split_once" -> args[1].k = "str" /\ args[2].k = "str"
      [] name = "string_from_binary" -> TRUE
      [] name = "binary_from_integers" -> args[1].k = "list"

\* C11: int_divide by zero, int_parse of a text that is not an integer,
\* list_pop of the empty list, string_split_once with an absent separator,
\* string_from_binary and binary_from_integers of invalid data each give
\* Tagged Error of the empty record with Break unset, and the run goes on
\* with that value; the successful cases give Tagged Ok of the result.
C11_DomainErrorsAreValues ==
    [][pc = "Loop" =>
        \A i \in 1..Len(state'.Invoked) :
          LET inv == state'.Invoked[i]
          IN  (/\ inv.Impl.f = "builtin" /\ inv.Impl.l \in DomainPrimitives
               /\ Len(inv.Args) = ExpectedArgs(inv.Impl)
               /\ DomainArgs(inv.Impl.l, inv.Args))
              => /\ state'.Break = NoBreak
                 /\ state'.IsValue
                 /\ state'.Stack # <<>> => pc' = "Loop"
                 /\ DomainResult(inv.Impl.l, inv.Args, state'.Control)]_vars

\* C12: evaluating a variable whose name the current environment does not
\* bind sets Break to UndefinedVariable of that name, and evaluating a
\* builtin reference whose name is not registered sets Break to
\* UndefinedBuiltin of that name; in both cases the loop returns at that
\* step, the step leaves the Stack as it was, and Control holds no value
\* (nil, or the unevaluated reference). A bound variable and a registered
\* builtin give their value and no Break.
C12_UndefinedNamesBreak ==
    [][(pc = "Loop" /\ ~state.IsValue /\ IsExpression(state.Control)
          /\ "l" \in DOMAIN state.Control) =>
        /\ (state.Control.op = VAR /\ state.Control.l \notin DOMAIN EnvMap(state))
             => /\ state'.Break = UndefinedVariable(state.Control.l)
                /\ pc' = "returned"
                /\ state'.Stack = state.Stack
                /\ state'.Control = NilV
        /\ (state.Control.op = VAR /\ state.Control.l \in DOMAIN EnvMap(state))
             => /\ state'.Break = NoBreak
                /\ state'.IsValue
                /\ state'.Control = EnvMap(state)[state.Control.l]
        /\ (state.Control.op = BUILTIN /\ state.Control.l \notin builtins)
             => /\ state'.Break = UndefinedBuiltin(state.Control.l)
                /\ pc' = "returned"
                /\ state'.Stack = state.Stack
                /\ ~state'.IsValue /\ state'.Control = state.Control
        /\ (state.Control.op = BUILTIN /\ state.Control.l \in builtins)
             => /\ state'.Break = NoBreak
                /\ state'.IsValue /\ state'.Control.k = "partial"]_vars

C12_Witness ==
    /\ pc = "returned" /\ state.Break = UndefinedVariable("b")
    /\ Len(state.Stack) >= 2 /\ state.Control = NilV

RECURSIVE Factorial(_)
Factorial(n) == IF n = 0 THEN 1 ELSE n * Factorial(n - 1)

IsIntValue(c, n) == HasKind(c) /\ c.k = "int" /\ c.v = n

IsIntList1(c, n) ==
    HasKind(c) /\ c.k = "list" /\ Len(c.v) = 1 /\ IsIntValue(c.v[1], n)

\* C13: fix(f) is a g with g(x) = f(g, x): applying the fixed point of a
\* builder to x calls the builder with the fixed point and then the result
\* with x. A recursion of depth n completes with the Stack back at its
\* depth before the call, and factorial of n is n! (120 for 5).
C13_FixRecursion ==
    /\ [][pc = "Loop" =>
            \A i \in 1..Len(state'.Invoked) :
              LET inv == state'.Invoked[i]
                  d == Len(state'.Stack)
              IN  (inv.Impl = Impl("builtin", "fixed") /\ Len(inv.Args) = 2) =>
                    /\ state'.IsValue /\ state'.Control = inv.Args[1]
                    /\ d = Len(state.Stack) + 1
                    /\ state'.Stack[d].k = "CallCont"
                    /\ state'.Stack[d].Arg = FixedPartial(inv.Args[1])
                    /\ state'.Stack[d - 1].k = "CallCont"
                    /\ state'.Stack[d - 1].Arg = inv.Args[2]]_vars
    /\ \A n \in 0..MaxDepth :
        /\ src = Fact(n) =>
             <>(/\ pc = "returned" /\ state.Break = NoBreak /\ state.Stack = <<>>
                /\ IsIntValue(state.Control, Factorial(n)))
        /\ src = FactIn(n) =>
             <>(/\ pc = "returned" /\ state.Break = NoBreak /\ state.Stack = <<>>
                /\ IsIntList1(state.Control, Factorial(n)))

C13_Witness ==
    /\ src = Fact(5) /\ pc = "returned" /\ IsIntValue(state.Control, 120)
    /\ state.Stack = <<>> /\ state.Break = NoBreak

RECURSIVE Malformed(_)
Malformed(e) ==
    \/ ~IsExpression(e)
    \/ e.op \notin {VAR, LAMBDA_, APPLY, LET_, VACANT, BINARY, INT, STRING_,
                    TAIL, CONS, EMPTY, EXTEND, SELECT, OVERWRITE, TAG, CASE_,
                    NOCASES, PERFORM, HANDLE, BUILTIN}
    \/ CASE e.op = VAR -> "l" \notin DOMAIN e
         [] e.op = LAMBDA_ ->
              "l" \notin DOMAIN e \/ "b" \notin DOMAIN e \/ Malformed(e.b)
         [] e.op = APPLY ->
              \/ "f" \notin DOMAIN e \/ "a" \notin DOMAIN e
              \/ Malformed(e.f) \/ Malformed(e.a)
         [] e.op = LET_ ->
              \/ "l" \notin DOMAIN e \/ "v" \notin DOMAIN e \/ "t" \notin DOMAIN e
              \/ Malformed(e.v) \/ Malformed(e.t)
         [] e.op \in {BINARY, INT, STRING_} -> "v" \notin DOMAIN e
         [] OTHER -> FALSE

\* C14: a run of an expression tree that holds a node without its type
\* field, with an unknown type, or without a required field (variable
\* label, lambda parameter or body, apply function or argument, let label,
\* value or then, literal value) ends with a fatal Break and never with a
\* successful value.
C14_MalformedTreeIsFatal ==
    (pc = "returned" /\ Malformed(src)) => state.Break.k = "error"

IsData(v) ==
    HasKind(v) /\ v.k \in {"int", "str", "list", "rec", "imap", "tagged"}

\* Structural equality of data values: integers and texts by content, lists
\* element-wise in order, records by key set and per-key value, tagged
\* values by tag and payload, different variants unequal.
RECURSIVE StructurallyEqual(_, _)
StructurallyEqual(a, b) ==
    CASE a.k \in {"int", "str"} -> b.k = a.k /\ a.v = b.v
      [] a.k = "list" ->
            /\ b.k = "list" /\ Len(a.v) = Len(b.v)
            /\ \A i \in 1..Len(a.v) : StructurallyEqual(a.v[i], b.v[i])
      [] a.k \in {"rec", "imap"} ->
            /\ b.k \in {"rec", "imap"} /\ DOMAIN a.v = DOMAIN b.v
            /\ \A key \in DOMAIN a.v : StructurallyEqual(a.v[key], b.v[key])
      [] a.k = "tagged" ->
            /\ b.k = "tagged" /\ a.Tag = b.Tag
            /\ StructurallyEqual(a.Value, b.Value)
      [] OTHER -> FALSE

\* C16: equal applied to two data values gives Tagged True of the empty
\* record exactly when they are structurally equal and Tagged False of the
\* empty record otherwise, never a Break; so it is reflexive and symmetric.
C16_EqualIsStructural ==
    [][pc = "Loop" =>
        \A i \in 1..Len(state'.Invoked) :
          LET inv == state'.Invoked[i]
          IN  (/\ inv.Impl = Impl("builtin", "equal") /\ Len(inv.Args) = 2
               /\ IsData(inv.Args[1]) /\ IsData(inv.Args[2]))
              => /\ state'.Break = NoBreak
                 /\ state'.IsValue
                 /\ state'.Control =
                      Tagged(IF StructurallyEqual(inv.Args[1], inv.Args[2])
                             THEN "True" ELSE "False", RecordV(<<>>))]_vars

\* C15: the run is deterministic: from the same state a step has one
\* result, whatever order the runtime takes in its ranges over maps, so the
\* same expression and the same host replies give the same states and the
\* same final Control and Break.
C15_Deterministic ==
    pc = "Loop" =>
        \A o1 \in RangeOrders : \A o2 \in RangeOrders :
            StepUnder(state, o1) = StepUnder(state, o2)

\* C17: when perform(L, v) is executed while a Delimit for L is on the
\* Stack, the effect is resolved against the nearest one: the frames below
\* it stay as the new Stack (the Delimit itself gone, only the handler's
\* call frames above them), and the handler is passed a Resume that holds
\* exactly the frames that were above the Delimit, in their order.
C17_StackSplit ==
    [][(pc = "Loop" /\ state.IsValue /\ state.Stack # <<>>) =>
        \A i \in 1..Len(state'.Invoked) :
          LET inv == state'.Invoked[i]
              stack == SubSeq(state.Stack, 1, Len(state.Stack) - 1)
              at == CHOOSE n \in Delimits(stack, inv.Impl.l) :
                        \A m \in Delimits(stack, inv.Impl.l) : m <= n
              below == SubSeq(stack, 1, at - 1)
              above == SubSeq(stack, at + 1, Len(stack))
              holds(r) == /\ r.k = "resume"
                          /\ r.Reversed = above \/ r.Reversed = Reverse(above)
          IN  (/\ inv.Impl.f = "perform" /\ Len(inv.Args) = 1
               /\ HasDelimit(stack, inv.Impl.l))
              => /\ IsPrefix(below, state'.Stack)
                 /\ \A n \in at..Len(state'.Stack) :
                        state'.Stack[n].k \in {"CallCont", "ApplyCont"}
                 /\ \/ \E j \in 1..Len(state'.Calls) : holds(state'.Calls[j].Arg)
                    \/ \E n \in at..Len(state'.Stack) :
                          state'.Stack[n].k = "CallCont" /\ holds(state'.Stack[n].Arg)]_vars

\* The value the frames of a Resume make of v when popped first to last.
RECURSIVE Popped(_, _)
Popped(frames, v) ==
    IF frames = <<>> THEN v
    ELSE Popped(Tail(frames), Tagged(Head(frames).Func.Impl.l, v))

\* C18: calling a Resume with v pushes its frames onto the Stack so that
\* they pop in the order the Resume holds them (first frame on top), sets
\* Control to the value v, leaves the frames below unchanged and leaves the
\* Resume as it was, so a second call pushes the same frames.
C18_ResumeInvocation ==
    [][pc = "Loop" =>
        /\ \A j \in 1..Len(state'.Calls) :
            LET fn == state'.Calls[j].Fn
                below == SubSeq(state.Stack, 1, Len(state.Stack) - 1)
                n == Len(fn.Reversed)
            IN  fn.k = "resume" =>
                  /\ Len(state'.Stack) = Len(below) + n
                  /\ SubSeq(state'.Stack, 1, Len(below)) = below
                  /\ \A m \in 1..n :
                        state'.Stack[Len(state'.Stack) + 1 - m] = fn.Reversed[m]
                  /\ state'.IsValue /\ state'.Control = state'.Calls[j].Arg
                  /\ state'.Break = NoBreak
                  /\ state'.Heap[1]["k"] = fn
        /\ state'.Heap[1]["k"] = state.Heap[1]["k"]
        /\ \A x \in Values :
            pc' = "returned" =>
              /\ src = EApply(ETag("Z"), EApply(EVar("k"), EInt(x))) =>
                    state'.Control =
                        Tagged("Z", Popped(state.Heap[1]["k"].Reversed, IntV(x)))
              /\ src = Apply2(ECons, EApply(EVar("k"), EInt(x)),
                              Apply2(ECons, EApply(EVar("k"), EInt(1)), ETail)) =>
                    state'.Control =
                        ListV(<<Popped(state.Heap[1]["k"].Reversed, IntV(x)),
                                Popped(state.Heap[1]["k"].Reversed, IntV(1))>>)]_vars

C18_Witness ==
    /\ state.Calls # <<>> /\ state.Calls[1].Fn.k = "resume"
    /\ Len(state.Calls[1].Fn.Reversed) = 2
    /\ state.Calls[1].Fn.Reversed[1] # state.Calls[1].Fn.Reversed[2]
    /\ Len(state.Stack) = 4
    /\ state.Stack[4] = state.Calls[1].Fn.Reversed[1]

HoldsEnv(frame) == frame.k \in {"ArgCont", "ApplyCont", "CallCont", "AssignCont"}

\* C19: the environment held by a frame has the same bindings for as long
\* as the frame is on the Stack: no step changes the environment of a frame
\* that the step leaves on the Stack.
C19_FrameEnvImmutable ==
    [][pc = "Loop" =>
        \A n \in 1..Len(state.Stack) :
            (/\ n <= Len(state'.Stack)
             /\ state'.Stack[n] = state.Stack[n]
             /\ HoldsEnv(state.Stack[n]))
            => state'.Heap[state.Stack[n].Env] = state.Heap[state.Stack[n].Env]]_vars

\* The addresses of the environments captured by the closures in a value.
RECURSIVE CapturedBy(_)
CapturedBy(v) ==
    CASE ~HasKind(v) -> {}
      [] v.k = "closure" -> {v.Captured}
      [] v.k = "partial" -> UNION {CapturedBy(v.Applied[i]) : i \in 1..Len(v.Applied)}
      [] v.k = "tagged" -> CapturedBy(v.Value)
      [] v.k = "list" -> UNION {CapturedBy(v.v[i]) : i \in 1..Len(v.v)}
      [] v.k = "rec" -> UNION {CapturedBy(v.v[key]) : key \in DOMAIN v.v}
      [] v.k = "ApplyCont" -> CapturedBy(v.Func)
      [] v.k = "CallCont" -> CapturedBy(v.Arg)
      [] v.k = "DelimitCont" -> CapturedBy(v.Handle)
      [] OTHER -> {}

\* The captured environments of every closure the state holds.
CapturedEnvs(s) ==
    CapturedBy(s.Control)
    \cup UNION {CapturedBy(s.Stack[n]) : n \in 1..Len(s.Stack)}
    \cup UNION {UNION {CapturedBy(s.Heap[a][key]) : key \in DOMAIN s.Heap[a]} :
                a \in 1..Len(s.Heap)}

\* C20: evaluating a Lambda gives a Closure whose captured environment has
\* the bindings current at that step, without evaluating the body; no step
\* changes the captured environment of a closure; each call of a closure
\* binds the parameter in a fresh environment made of the captured
\* bindings, so a second call sees what the first saw, whatever was bound
\* by the first call's body or by the creating scope since.
C20_ClosureEnvSnapshot ==
    [][pc = "Loop" =>
        /\ (~state.IsValue /\ IsExpression(state.Control)
                /\ state.Control.op = LAMBDA_)
             => /\ state'.IsValue /\ state'.Control.k = "closure"
                /\ state'.Control.Lambda = state.Control
                /\ state'.Control.Captured \notin 1..Len(state.Heap)
                /\ state'.Heap[state'.Control.Captured] = EnvMap(state)
                /\ state'.Stack = state.Stack /\ state'.Env = state.Env
                /\ state'.Calls = <<>> /\ state'.Break = NoBreak
        /\ \A a \in CapturedEnvs(state) : state'.Heap[a] = state.Heap[a]
        /\ \A j \in 1..Len(state'.Calls) :
            LET fn == state'.Calls[j].Fn
            IN  (fn.k = "closure" /\ "l" \in DOMAIN fn.Lambda
                                  /\ "b" \in DOMAIN fn.Lambda)
                => /\ state'.Env \notin 1..Len(state.Heap)
                   /\ state'.Env \notin CapturedEnvs(state)
                   /\ state'.Heap[state'.Env] =
                        [key \in DOMAIN state.Heap[fn.Captured] \cup {fn.Lambda.l} |->
                            IF key = fn.Lambda.l THEN state'.Calls[j].Arg
                            ELSE state.Heap[fn.Captured][key]]
        /\ \A x \in Values :
            (pc' = "returned" /\ src = ClosureTwice(x))
                => state'.Control = ListV(<<IntV(x), IntV(x)>>)]_vars

C20_Witness ==
    /\ \E x \in Values : src = ClosureTwice(x)
    /\ state.Calls # <<>> /\ state.Calls[1].Fn.k = "closure"
    /\ state.Calls[1].Arg = IntV(2)
    /\ EnvMap(state)["a"] # IntV(0)
    /\ state.Heap[1]["a"] = IntV(0)

\* C21: handle L(handler, thunk) pushes one Delimit{L, handler} above the
\* frames that were below the call and calls thunk with the empty record;
\* while that Delimit stays on the Stack no step changes the frames below
\* it; when a value reaches it the Delimit alone is popped, the value stays
\* Control unchanged, nothing is called (the handler included) and no Break
\* is set, so the handle expression has the thunk's value.
C21_HandleTransparent ==
    [][pc = "Loop" =>
        /\ \A i \in 1..Len(state'.Invoked) :
            LET inv == state'.Invoked[i]
                below == SubSeq(state.Stack, 1, Len(state.Stack) - 1)
            IN  (inv.Impl.f = "handle" /\ Len(inv.Args) = 2)
                => /\ Len(state'.Stack) > Len(below)
                   /\ SubSeq(state'.Stack, 1, Len(below)) = below
                   /\ state'.Stack[Len(below) + 1] =
                        DelimitCont(inv.Impl.l, inv.Args[1])
                   /\ \E j \in 1..Len(state'.Calls) :
                        /\ state'.Calls[j].Fn = inv.Args[2]
                        /\ state'.Calls[j].Arg = Unit
        /\ (state.IsValue /\ Len(state.Stack) > 0
                /\ Top(state).k = "DelimitCont")
             => /\ state'.IsValue /\ state'.Control = state.Control
                /\ state'.Stack = SubSeq(state.Stack, 1, Len(state.Stack) - 1)
                /\ state'.Calls = <<>> /\ state'.Invoked = <<>>
                /\ state'.Break = NoBreak
                /\ state'.Env = state.Env /\ state'.Heap = state.Heap
        /\ \A n \in 1..Len(state.Stack) :
            (/\ n <= Len(state'.Stack)
             /\ state.Stack[n].k = "DelimitCont"
             /\ state'.Stack[n] = state.Stack[n])
            => SubSeq(state'.Stack, 1, n - 1) = SubSeq(state.Stack, 1, n - 1)
        /\ \A x \in Values :
            (pc' = "returned" /\ state'.Break = NoBreak) =>
              /\ src = HandlePrograms(x)[1] => state'.Control = Tagged("T", IntV(x))
              /\ src = HandlePrograms(x)[2] => state'.Control = IntV(x + 1)
              /\ src = HandlePrograms(x)[3] => state'.Control = Tagged("T", IntV(x))]_vars

C21_Witness ==
    /\ src = HandlePrograms(2)[1]
    /\ state.IsValue /\ state.Control = IntV(2)
    /\ Len(state.Stack) = 1 /\ state.Stack[1].k = "ApplyCont"
    /\ state.Break = NoBreak

\* C22: Loop returns only in a state where Break is set, or where Control is
\* a value and the Stack is empty; after each step it returns exactly when
\* one of the two holds, so it does not go on stepping from such a state and
\* does not return while Break is unset and a frame is on the Stack or
\* Control is an expression; once returned, only a Resume by the host of an
\* escaped effect moves the machine again.
C22_TerminationCondition ==
    /\ [](pc = "returned" =>
            \/ state.Break # NoBreak
            \/ (state.IsValue /\ ~IsExpression(state.Control)
                    /\ state.Stack = <<>>))
    /\ [][/\ pc = "Loop" =>
              (pc' = "returned" <=>
                  \/ state'.Break # NoBreak
                  \/ (state'.IsValue /\ state'.Stack = <<>>))
          /\ pc = "returned" =>
              /\ state.Break.k = "effect"
              /\ Len(replies') = Len(replies) + 1
              /\ state' = Resume(state, replies'[Len(replies')])]_vars

C22_Witness ==
    /\ pc = "returned" /\ state.Break = NoBreak
    /\ state.IsValue /\ state.Stack = <<>>
    /\ replies # <<>>
    /\ \E x \in Values : src = HandlePrograms(x)[3]

\* A step that evaluates a literal node of the given kinds (one that holds
\* its value, for the kinds that have one).
EvaluatesLiteral(ops) ==
    /\ pc = "Loop" /\ ~state.IsValue /\ IsExpression(state.Control)
    /\ state.Control.op \in ops
    /\ state.Control.op # VACANT => "v" \in DOMAIN state.Control

\* C23: evaluating an Int, Str, Binary or Vacant literal takes one step,
\* after which Control is a value (the one the literal holds), Break is
\* unset, and Env and Stack are as before.
C23_LiteralsEvaluate ==
    [][EvaluatesLiteral({INT, STRING_, BINARY, VACANT}) =>
        /\ state'.IsValue /\ ~IsExpression(state'.Control)
        /\ state.Control.op # VACANT => state'.Control = state.Control.v
        /\ state'.Break = NoBreak
        /\ state'.Env = state.Env /\ state'.Heap = state.Heap
        /\ state'.Stack = state.Stack]_vars

\* C23, amended: an Int, Str or Binary literal evaluates in one step to the
\* value it holds, with Break unset and Env and Stack unchanged; a Vacant
\* produces no value: its step sets Break to NotImplemented, leaves Control,
\* Env and Stack unchanged, and Loop returns.
C23_LiteralsExceptVacant ==
    [][/\ EvaluatesLiteral({INT, STRING_, BINARY}) =>
            /\ state'.IsValue /\ ~IsExpression(state'.Control)
            /\ state'.Control = state.Control.v
            /\ state'.Break = NoBreak
            /\ state'.Env = state.Env /\ state'.Heap = state.Heap
            /\ state'.Stack = state.Stack
       /\ EvaluatesLiteral({VACANT}) =>
            /\ ~state'.IsValue /\ state'.Control = state.Control
            /\ state'.Break = NotImplemented
            /\ state'.Env = state.Env /\ state'.Heap = state.Heap
            /\ state'.Stack = state.Stack
            /\ pc' = "returned"]_vars

C23_Witness ==
    /\ pc = "returned" /\ state.Break = NotImplemented
    /\ state.Control = EVacant /\ ~state.IsValue
    /\ Len(state.Stack) = 1 /\ state.Stack[1].k = "ApplyCont"
    /\ "a" \in DOMAIN EnvMap(state)

\* The frames of a stack that a step from s may not touch: all but the top
\* one when the step is an apply step, all of them when it is an eval step.
FramesBelow(s) ==
    IF s.IsValue /\ Len(s.Stack) > 0
    THEN SubSeq(s.Stack, 1, Len(s.Stack) - 1)
    ELSE s.Stack

\* C24: an apply step removes the top frame and no other and an eval step
\* removes none: after any step the frames below are still there, in the
\* same order, under whatever the step added; and the step does not read
\* them: run without them, it gives the same state but for their absence.
C24_StrictLIFO ==
    [][pc = "Loop" =>
        LET below == FramesBelow(state)
            rest == SubSeq(state.Stack, Len(below) + 1, Len(state.Stack))
        IN  /\ IsPrefix(below, state'.Stack)
            /\ \E o \in RangeOrders :
                LET t == StepUnder([state EXCEPT !.Stack = rest], o)
                IN  state' = [t EXCEPT !.Stack = below \o t.Stack,
                                       !.Bases = [j \in 1..Len(t.Bases) |->
                                                    below \o t.Bases[j]]]]_vars

C24_Witness ==
    /\ pc = "Loop" /\ state.Calls # <<>> /\ state.Invoked # <<>>
    /\ Len(state.Stack) >= 3
    /\ state.Stack[1].k = "AssignCont"

\* ------------------------------------------------------------ Go memory
\* Lists, records and the Applied of a Partial as Go holds them: a slice is
\* a window on a backing array, a map is a reference. A memory holds the
\* arrays, the maps, and the values bound to variables (Roots).
MaxCalls == 2

Slice(ptr, off, len, cap) ==
    [k |-> "slice", Ptr |-> ptr, Off |-> off, Len |-> len, Cap |-> cap]

MapRef(ptr) == [k |-> "map", Ptr |-> ptr]

PartialAt(exp, applied, impl) ==
    [k |-> "partialAt", Exp |-> exp, Applied |-> applied, Impl |-> impl]

NewMemory == [Arrays |-> <<>>, Maps |-> <<>>, Roots |-> <<>>, Break |-> FALSE]

Cells(m, sl) == [i \in 1..sl.Len |-> m.Arrays[sl.Ptr][sl.Off + i]]

Result(m, v) == [M |-> m, V |-> v]

Failure(m) == [M |-> [m EXCEPT !.Break = TRUE], V |-> NilV]

\* []Value{...} and make: a new backing array.
makeSlice(m, cells, cap) ==
    Result([m EXCEPT !.Arrays =
                Append(@, [i \in 1..cap |-> IF i <= Len(cells) THEN cells[i] ELSE NilV])],
           Slice(Len(m.Arrays) + 1, 0, Len(cells), cap))

makeMap(m, f) == Result([m EXCEPT !.Maps = Append(@, f)], MapRef(Len(m.Maps) + 1))

\* append(sl, xs...): in place when the capacity allows, else in a new array
\* of the capacity growslice chooses for small slices of interface values.
goAppend(m, sl, xs) ==
    LET newLen == sl.Len + Len(xs) IN
    IF Len(xs) = 0 THEN Result(m, sl)
    ELSE IF newLen <= sl.Cap
    THEN Result([m EXCEPT !.Arrays[sl.Ptr] =
                    [i \in 1..Len(@) |->
                        IF i > sl.Off + sl.Len /\ i <= sl.Off + newLen
                        THEN xs[i - sl.Off - sl.Len] ELSE @[i]]],
                [sl EXCEPT !.Len = newLen])
    ELSE makeSlice(m, Cells(m, sl) \o xs,
                   IF newLen > 2 * sl.Cap THEN newLen ELSE 2 * sl.Cap)

consAt(m, args) ==
    IF Len(args) # 2 THEN Failure(m)
    ELSE IF args[2].k # "slice" THEN Failure(m)
    ELSE LET item == makeSlice(m, <<args[1]>>, 1)
         IN  goAppend(item.M, item.V, Cells(m, args[2]))

extendAt(m, label, args) ==
    IF Len(args) # 2 THEN Failure(m)
    ELSE IF args[2].k # "map" THEN Failure(m)
    ELSE LET rest == m.Maps[args[2].Ptr]
         IN  makeMap(m, [key \in DOMAIN rest \cup {label} |->
                            IF key = label THEN args[1] ELSE rest[key]])

selectFieldAt(m, label, args) ==
    IF Len(args) # 1 THEN Failure(m)
    ELSE IF args[1].k # "map" THEN Failure(m)
    ELSE IF label \in DOMAIN m.Maps[args[1].Ptr]
    THEN Result(m, m.Maps[args[1].Ptr][label])
    ELSE Failure(m)

builtinListPopAt(m, args) ==
    IF Len(args) # 1 THEN Failure(m)
    ELSE IF args[1].k # "slice" THEN Failure(m)
    ELSE LET list == args[1] IN
         IF list.Len = 0
         THEN LET e == makeMap(m, <<>>) IN Result(e.M, Tagged("Error", e.V))
         ELSE LET head == Cells(m, list)[1]
                  tail == Slice(list.Ptr, list.Off + 1, list.Len - 1, list.Cap - 1)
                  r == makeMap(m, [key \in {"head", "tail"} |->
                                      IF key = "head" THEN head ELSE tail])
              IN  Result(r.M, Tagged("Ok", r.V))

InvokeAt(m, impl, args) ==
    CASE impl.f = "cons" -> consAt(m, args)
      [] impl.f = "extend" -> extendAt(m, impl.l, args)
      [] impl.f = "select" -> selectFieldAt(m, impl.l, args)
      [] impl.f = "builtin" /\ impl.l = "list_pop" -> builtinListPopAt(m, args)

\* A new Partial whose Applied has room for all its arguments.
NewPartialWithCapacity(m, exp, impl) ==
    LET applied == makeSlice(m, <<>>, getRequiredArgs(exp))
    IN  Result(applied.M, PartialAt(exp, applied.V, impl))

\* eval of a primitive: &Partial{Exp: expr, Applied: []Value{}, Impl: ...}
NewPartialAt(m, exp, impl) == Result(m, PartialAt(exp, Slice(0, 0, 0, 0), impl))

\* call, case *Partial.
callPartialAt(m, f, arg) ==
    LET applied == goAppend(m, f.Applied, <<arg>>) IN
    IF applied.V.Len >= getRequiredArgs(f.Exp)
    THEN InvokeAt(applied.M, f.Impl, Cells(applied.M, applied.V))
    ELSE Result(applied.M, PartialAt(f.Exp, applied.V, f.Impl))

callAt(m, f, arg) ==
    IF f.k = "partialAt" THEN callPartialAt(m, f, arg) ELSE Failure(m)

\* let: the value is bound to a new variable.
Keep(r) == IF r.M.Break THEN r.M ELSE [r.M EXCEPT !.Roots = Append(@, r.V)]

Called(m, i, j) == Keep(callAt(m, m.Roots[i], m.Roots[j]))

\* What a value holds, followed through the memory.
RECURSIVE Contents(_, _)
Contents(m, v) ==
    CASE v.k = "slice" ->
            ListV([i \in 1..v.Len |-> Contents(m, Cells(m, v)[i])])
      [] v.k = "map" ->
            RecordV([key \in DOMAIN m.Maps[v.Ptr] |-> Contents(m, m.Maps[v.Ptr][key])])
      [] v.k = "partialAt" ->
            Partial(v.Exp, [i \in 1..v.Applied.Len |->
                                Contents(m, Cells(m, v.Applied)[i])], v.Impl)
      [] v.k = "tagged" -> Tagged(v.Tag, Contents(m, v.Value))
      [] OTHER -> v

\* The memory after
\*   let l = [1, 2] in let r = {a: 1} in let c1 = cons(1) in ...
\* with the primitives themselves bound as well.
MemStart ==
    LET m1 == [NewMemory EXCEPT !.Roots = <<IntV(1), IntV(2), Slice(0, 0, 0, 0)>>]
        m2 == Keep(makeMap(m1, <<>>))
        m3 == Keep(NewPartialAt(m2, ECons, Impl("cons", "")))
        m4 == Keep(NewPartialAt(m3, EExtend("a"), Impl("extend", "a")))
        m5 == Keep(NewPartialAt(m4, ESelect("a"), Impl("select", "a")))
        m6 == Keep(NewPartialAt(m5, EBuiltin("list_pop"), Impl("builtin", "list_pop")))
        m7 == Called(m6, 5, 1)
        m8 == Called(Called(m7, 5, 2), 10, 3)
        m9 == Called(m8, 9, 11)
        m10 == Called(Called(m9, 6, 1), 13, 4)
    IN  [m10 EXCEPT !.Roots =
            [i \in 1..11 |-> IF i <= 9 THEN m10.Roots[i]
                             ELSE IF i = 10 THEN m10.Roots[12] ELSE m10.Roots[14]]]

MemInit ==
    /\ src = <<>>
    /\ state = MemStart
    /\ pc = "Mem"
    /\ effects = <<>>
    /\ replies = <<>>

\* let x = f(a) for two bound values: call, then bind the result; a Break
\* ends the run.
MemCall(i, j) ==
    /\ pc = "Mem"
    /\ Len(state.Roots) < Len(MemStart.Roots) + MaxCalls
    /\ state' = Called(state, i, j)
    /\ pc' = IF state'.Break THEN "returned" ELSE "Mem"
    /\ UNCHANGED <<src, effects, replies>>

MemNext == \E i, j \in 1..Len(state.Roots) : MemCall(i, j)

MemSpec == MemInit /\ [][MemNext]_vars

\* C25: cons, extend, select, list_pop and the application of a Partial
\* leave every value bound before the operation with the contents it had,
\* the values they were given and the results of earlier applications of
\* the same Partial included; the results are those of the operation.
C25_NoInPlaceMutation ==
    [][pc = "Mem" =>
        /\ \A n \in 1..Len(state.Roots) :
              /\ state'.Roots[n] = state.Roots[n]
              /\ Contents(state', state.Roots[n]) = Contents(state, state.Roots[n])
        /\ \A j \in 1..Len(state.Roots) :
              (~state'.Break /\ state.Roots[j].k = "slice") =>
                /\ state' = Called(state, 9, j) =>
                      Contents(state', state'.Roots[Len(state'.Roots)]) =
                        ListV(<<IntV(1)>> \o Contents(state, state.Roots[j]).v)
                /\ (state' = Called(state, 8, j) /\ state.Roots[j].Len > 0) =>
                      Contents(state', state'.Roots[Len(state'.Roots)]) =
                        Tagged("Ok", RecordV([key \in {"head", "tail"} |->
                            IF key = "head"
                            THEN Contents(state, state.Roots[j]).v[1]
                            ELSE ListV(Tail(Contents(state, state.Roots[j]).v))]))]_vars

C25_Witness ==
    /\ pc = "Mem" /\ Len(state.Roots) = 13
    /\ Contents(state, state.Roots[12]) = Partial(EExtend("a"), <<IntV(1)>>, Impl("extend", "a"))
    /\ Contents(state, state.Roots[13]) = Partial(EExtend("a"), <<IntV(2)>>, Impl("extend", "a"))

\* The names getBuiltinArgCount's table gives a count for.
argCounts ==
    {"equal", "fix", "fixed", "int_compare", "int_add", "int_subtract",
     "int_multiply", "int_divide", "int_absolute", "int_parse",
     "int_to_string", "string_append", "string_split", "string_split_once",
     "string_replace", "string_uppercase", "string_lowercase",
     "string_ends_with", "string_starts_with", "string_length", "list_pop",
     "list_fold", "string_to_binary", "string_from_binary",
     "binary_from_integers", "binary_fold"}

\* Every Partial held in v holds fewer arguments than the arity declared for
\* its expression, which is the number its implementation expects.
RECURSIVE ArityOk(_)
ArityOk(v) ==
    CASE ~HasKind(v) -> TRUE
      [] v.k = "partial" ->
            /\ Len(v.Applied) < getRequiredArgs(v.Exp)
            /\ getRequiredArgs(v.Exp) = ExpectedArgs(v.Impl)
            /\ \A i \in 1..Len(v.Applied) : ArityOk(v.Applied[i])
      [] v.k = "tagged" -> ArityOk(v.Value)
      [] v.k = "list" -> \A i \in 1..Len(v.v) : ArityOk(v.v[i])
      [] v.k = "rec" -> \A key \in DOMAIN v.v : ArityOk(v.v[key])
      [] v.k = "resume" -> \A i \in 1..Len(v.Reversed) : ArityOk(v.Reversed[i])
      [] v.k = "effect" -> ArityOk(v.Lift)
      [] v.k = "ApplyCont" -> ArityOk(v.Func)
      [] v.k = "CallCont" -> ArityOk(v.Arg)
      [] v.k = "DelimitCont" -> ArityOk(v.Handle)
      [] OTHER -> TRUE

\* C26: every Partial the state holds (in Control, in a frame, in an
\* environment, inside another value or in a pending effect) holds strictly
\* fewer arguments than its declared arity; the arity table and the
\* implementation table name the same builtins and each count is the number
\* of arguments the implementation expects; every invocation passes exactly
\* that number, and no 'expects N arguments' Break is ever set.
C26_ArityInvariant ==
    /\ [](/\ ArityOk(state.Control) /\ ArityOk(state.Break)
          /\ \A n \in 1..Len(state.Stack) : ArityOk(state.Stack[n])
          /\ \A a \in 1..Len(state.Heap) :
                \A key \in DOMAIN state.Heap[a] : ArityOk(state.Heap[a][key])
          /\ argCounts = builtins
          /\ \A name \in builtins :
                getBuiltinArgCount(name) = ExpectedArgs(getBuiltin(name))
          /\ ~IsArityBreak(state.Break))
    /\ [][pc = "Loop" =>
            \A i \in 1..Len(state'.Invoked) :
                Len(state'.Invoked[i].Args) = ExpectedArgs(state'.Invoked[i].Impl)]_vars

C26_Witness ==
    /\ state.Invoked # <<>>
    /\ state.Invoked[1].Impl = Impl("case", "L")
    /\ Len(state.Invoked[1].Args) = 3
    /\ state.Calls # <<>> /\ state.Calls[1].Fn.k = "partial"
    /\ Len(state.Calls[1].Fn.Applied) = 2
    /\ state.Break = NoBreak

\* The Breaks that are not effects: fmt.Errorf errors, UndefinedVariable,
\* UndefinedBuiltin and NotImplemented.
MachineFatal(b) ==
    b.k \in {"error", "UndefinedVariable", "UndefinedBuiltin", "NotImplemented"}

\* C27: the step that sets a fatal Break starts from a state without Break
\* and is the last one: Loop returns right after it, and no step of any kind
\* is taken from a state whose Break is fatal, so nothing is popped or
\* evaluated afterwards.
C27_FatalBreakHalts ==
    [][/\ ~MachineFatal(state.Break)
       /\ MachineFatal(state'.Break) =>
            /\ pc = "Loop" /\ pc' = "returned"
            /\ state.Break = NoBreak]_vars

C27_Witness ==
    /\ pc = "returned" /\ state.Break.k = "error"
    /\ Len(state.Stack) >= 2

\* The embedding may call any public method of a State that Eval or Resume
\* returned: Resume with any value, a single Step, or Loop. replies logs
\* the calls (a value for Resume), and MaxEffects bounds their number.
ApiPrograms ==
    Flatten([x \in Values |->
        UndefinedPrograms(x) \o LiteralPrograms(x) \o CasePrograms(x)
        \o <<LetLeak(x), AlertAbort(x), LogThen(x, 1)>>])

ApiInit ==
    /\ \E i \in 1..Len(ApiPrograms) : src = ApiPrograms[i]
    /\ state = NewState(src)
    /\ pc = "Loop"
    /\ effects = <<>>
    /\ replies = <<>>

\* A Go panic ends the process: there is no State left to call.
Callable == pc = "returned" /\ state.Break.k # "panic" /\ Len(replies) < MaxEffects

\* state.Resume(reply), whatever the Break.
PublicResume(reply) ==
    /\ Callable
    /\ state' = Resume(state, reply)
    /\ replies' = Append(replies, reply)
    /\ pc' = "Loop"
    /\ UNCHANGED <<src, effects>>

\* state.Step()
PublicStep ==
    /\ Callable
    /\ \E o \in RangeOrders : state' = StepUnder(state, o)
    /\ replies' = Append(replies, NilV)
    /\ UNCHANGED <<src, pc, effects>>

\* state.Loop()
PublicLoop ==
    /\ Callable
    /\ pc' = "Loop"
    /\ replies' = Append(replies, NilV)
    /\ UNCHANGED <<src, state, effects>>

ApiNext ==
    \/ LoopStep
    \/ \E i \in 1..Len(Replies) : PublicResume(Replies[i])
    \/ PublicStep
    \/ PublicLoop

ApiSpec == ApiInit /\ [][ApiNext]_vars

\* C28: once the Break of a state is fatal, no call of Step, Loop or Resume
\* clears it: the Break stays fatal, so the machine never again returns a
\* value.
C28_FatalBreakPermanent ==
    [][MachineFatal(state.Break) => MachineFatal(state'.Break)]_vars

Descending(n) == ListV([i \in 1..n |-> IntV(n + 1 - i)])

IsValueOf(c, v) == HasKind(c) /\ c.k = v.k /\ c = v

\* C29: list_fold(list, init, fn) on a non-empty list leaves fn as Control
\* over four frames pushed on the Stack below the call: the head and then
\* init to call fn with, list_fold holding the tail to apply to the result,
\* and fn to complete that call; so it computes list_fold(tail, fn(head)(init),
\* fn), a left fold in list order. On the empty list it yields init and
\* calls nothing. The fold of [1..n] with cons from [] completes with
\* [n, ..., 1] and the Stack as it was below the call.
C29_ListFoldLeft ==
    /\ [][pc = "Loop" =>
            \A i \in 1..Len(state'.Invoked) :
              LET inv == state'.Invoked[i]
                  below == SubSeq(state.Stack, 1, Len(state.Stack) - 1)
                  d == Len(below)
              IN  (inv.Impl = Impl("builtin", "list_fold") /\ Len(inv.Args) = 3
                        /\ inv.Args[1].k = "list") =>
                    /\ inv.Args[1].v = <<>> =>
                          /\ state'.IsValue /\ state'.Control = inv.Args[2]
                          /\ state'.Stack = below
                          /\ Len(state'.Calls) = 1 /\ Len(state'.Invoked) = 1
                    /\ inv.Args[1].v # <<>> =>
                          /\ state'.IsValue /\ state'.Control = inv.Args[3]
                          /\ Len(state'.Stack) = d + 4
                          /\ SubSeq(state'.Stack, 1, d) = below
                          /\ state'.Stack[d + 4].k = "CallCont"
                          /\ state'.Stack[d + 4].Arg = Head(inv.Args[1].v)
                          /\ state'.Stack[d + 3].k = "CallCont"
                          /\ state'.Stack[d + 3].Arg = inv.Args[2]
                          /\ state'.Stack[d + 2].k = "ApplyCont"
                          /\ state'.Stack[d + 2].Func =
                                Partial(EBuiltin("list_fold"),
                                        <<ListV(Tail(inv.Args[1].v))>>,
                                        Impl("builtin", "list_fold"))
                          /\ state'.Stack[d + 1].k = "CallCont"
                          /\ state'.Stack[d + 1].Arg = inv.Args[3]
                          /\ Len(state'.Calls) = 1]_vars
    /\ \A n \in 0..MaxFold :
        /\ src = FoldRev(n) =>
             <>(/\ pc = "returned" /\ state.Break = NoBreak /\ state.Stack = <<>>
                /\ IsValueOf(state.Control, Descending(n)))
        /\ src = FoldIn(n) =>
             <>(/\ pc = "returned" /\ state.Break = NoBreak /\ state.Stack = <<>>
                /\ IsValueOf(state.Control, Tagged("T", Descending(n))))

C29_Witness ==
    /\ src = FoldIn(MaxFold)
    /\ state.Invoked # <<>>
    /\ state.Invoked[1].Impl = Impl("builtin", "list_fold")
    /\ Len(state.Invoked[1].Args[1].v) = 1
    /\ Len(state.Stack) = 5

\* The calls of a step, each with the Stack at the moment of the call: the
\* frames below the frame that triggered it, and what the calling primitive
\* pushed before calling.
Begun(s) == [j \in 1..Len(s.Calls) |-> [Fn |-> s.Calls[j].Fn, Base |-> s.Bases[j]]]

\* The call's result is Control: a value over no more frames than the call
\* started with.
Completes(s, e) == s.IsValue /\ s.Break = NoBreak /\ Len(s.Stack) <= Len(e.Base)

RECURSIVE StillPending(_, _)
StillPending(s, es) ==
    IF es = <<>> THEN <<>>
    ELSE (IF Completes(s, Head(es)) THEN <<>> ELSE <<Head(es)>>)
         \o StillPending(s, Tail(es))

\* One iteration of Loop, with effects recording the calls in progress.
TrackedStep ==
    /\ pc = "Loop"
    /\ \E o \in RangeOrders : state' = StepUnder(state, o)
    /\ pc' = IF LoopDone(state') THEN "returned" ELSE "Loop"
    /\ effects' = StillPending(state', effects \o Begun(state'))
    /\ UNCHANGED <<src, replies>>

CallSpec == Init /\ [][TrackedStep]_vars

\* C30: a call of a closure or of a Partial (the primitives and builtins,
\* fix, list_fold and handle among them) never removes a frame that was on
\* the Stack when it began, and at the moment its result is Control as a
\* value the Stack is exactly what it was then: the frames that lay below
\* the frame that triggered the call.
C30_CallsStackNeutral ==
    [][pc = "Loop" =>
        LET calls == effects \o Begun(state') IN
        \A i \in 1..Len(calls) :
            calls[i].Fn.k \in {"closure", "partial"} =>
                /\ IsPrefix(calls[i].Base, state'.Stack)
                /\ Completes(state', calls[i]) => state'.Stack = calls[i].Base]_vars

C30_Witness ==
    /\ src = FoldIn(2)
    /\ state.IsValue /\ IsValueOf(state.Control, Descending(2))
    /\ Len(state.Stack) = 1 /\ state.Stack[1].k = "ApplyCont"
    /\ effects = <<>>

====
